---- MODULE Spec2Model ----
(***************************************************************************)
(* Provider orchestration of ai_integrator: the two provider registries of *)
(* AIIntegrator (text, image), single dispatch (generate, generate_image)  *)
(* and fan-out (generate_parallel, generate_images_parallel) as asyncio    *)
(* tasks that suspend only inside a provider's generation call.            *)
(* Beside the orchestrator: validate_request of the image providers, the   *)
(* canonical JSON and hashes of core/provenance, and validate_config.       *)
(***************************************************************************)
EXTENDS Integers, Sequences, FiniteSets, TLC

VARIABLES
    providers,                \* AIIntegrator.providers: insertion-ordered dict, a sequence of [name, inst]
    default_provider,         \* AIIntegrator._default_provider
    image_providers,          \* AIIntegrator.image_providers
    default_image_provider,   \* AIIntegrator._default_image_provider
    call_count,               \* call_count of each mock provider instance
    call,                     \* the caller's current orchestrator call
    tasks,                    \* the coroutines of the current call, in creation order
    uuids,                    \* request ids generated so far (uuid4 never repeats)
    last_added,               \* history: the provider last added under each registered text name
    last_image_added,         \* history: the same for the image registry
    half,                     \* which registries the run's callers use: "text", "image" or "both"
    nMut,                     \* registry mutations made so far
    nCalls,                   \* orchestrator calls made so far
    applied                   \* the function a caller applied last, with its arguments and result

vars == <<providers, default_provider, image_providers, default_image_provider,
          call_count, call, tasks, uuids, last_added, last_image_added, half, nMut, nCalls,
          applied>>

regVars == <<providers, default_provider, image_providers, default_image_provider,
            last_added, last_image_added>>

-----------------------------------------------------------------------------
(* Bounds of the model *)

MaxMut == 3

MaxCalls == 1

-----------------------------------------------------------------------------
(* Values *)

\* Python's None
None == "<None>"

\* Registry names a caller may choose; the empty string is a legal dict key
Names == {"", "a", "b"}

\* Python truthiness of an Optional[str]
Truthy(x) == x # None /\ x # ""

\* Python's `x or y`
PyOr(x, y) == IF Truthy(x) THEN x ELSE y

\* Provider instances that exist in the program
TextInsts == {"mock1", "local1"}

ImageInsts == {"imock1", "toolbox1"}

MockInsts == {"mock1", "imock1"}

-----------------------------------------------------------------------------
(* An insertion-ordered dict as a sequence of [name, inst] records *)

Keys(d) == {d[i].name : i \in DOMAIN d}

Has(d, n) == n \in Keys(d)

IndexOf(d, n) == CHOOSE i \in DOMAIN d : d[i].name = n

Lookup(d, n) == d[IndexOf(d, n)].inst

\* a dict assignment that keeps the value of an existing key
DictSetKeepsOld(d, n, v) ==
    IF Has(d, n) THEN d ELSE Append(d, [name |-> n, inst |-> v])

\* d[n] = v: an existing key keeps its position, a new key goes last
DictSet(d, n, v) ==
    IF Has(d, n)
    THEN [d EXCEPT ![IndexOf(d, n)] = [name |-> n, inst |-> v]]
    ELSE Append(d, [name |-> n, inst |-> v])

\* a delete that drops the oldest entry, whatever its key
DictDelHead(d, n) == Tail(d)

\* del d[n]
DictDel(d, n) == SelectSeq(d, LAMBDA e : e.name # n)

\* next(iter(d.keys()), None)
FirstKey(d) == IF d = <<>> THEN None ELSE d[1].name

-----------------------------------------------------------------------------
(* Providers *)

\* MockProvider.AVAILABLE_MODELS / LocalProvider.AVAILABLE_MODELS
TextModels(inst) ==
    IF inst = "mock1" THEN {"mock-small", "mock-medium", "mock-large"}
    ELSE {"local-default"}

\* MockImageProvider.AVAILABLE_MODELS / ToolboxImageProvider.AVAILABLE_MODELS
ImageModels(inst) ==
    IF inst = "imock1" THEN {"mock-image-v1", "mock-image-v2"}
    ELSE {"dall-e-3", "dall-e-2", "stable-diffusion-xl", "stable-diffusion-v1.5"}

\* BaseProvider.validate_model
validate_model(inst, model) == model \in TextModels(inst)

\* BaseImageProvider.validate_model
image_validate_model(inst, model) == model \in ImageModels(inst)

\* ImageSize: SQUARE_HD has LARGE's value and is an alias of it
ImageSize == {"256x256", "512x512", "1024x1024", "1792x1024", "1024x1792"}

ImageStyle == {"photorealistic", "artistic", "technical", "sketch", "natural", "vivid"}

ImageFormat == {"png", "jpeg", "webp", "b64_json"}

\* BaseImageProvider.supported_sizes, overridden by ToolboxImageProvider
\* (DALLE3_SIZES | DALLE2_SIZES)
supported_sizes(inst) ==
    IF inst = "toolbox1"
    THEN {"1024x1024", "1792x1024", "1024x1792"} \cup {"256x256", "512x512", "1024x1024"}
    ELSE ImageSize

supported_styles(inst) == ImageStyle

supported_formats(inst) == ImageFormat

\* a provider that takes any batch a request may carry
max_images_per_request_any(inst) == 10

max_images_per_request(inst) == 4

\* what a provider instance supports: its capability properties and models
Capabilities(inst) ==
    [sizes |-> supported_sizes(inst), styles |-> supported_styles(inst),
     formats |-> supported_formats(inst), max_images |-> max_images_per_request(inst),
     models |-> ImageModels(inst)]

-----------------------------------------------------------------------------
(* Outcomes of a dispatch: a response or a raised error *)

\* no function applied yet
NoApplied == [fn |-> "none", args |-> <<>>, result |-> <<>>]

NoProv == [request_id |-> 0, model_id |-> None, provider_name |-> None, input_hash |-> None]

NoOutcome == [kind |-> "none", etype |-> None, detail |-> <<>>, inst |-> None,
              model |-> None, images |-> <<>>, count |-> 0, provenance |-> NoProv]

\* raise etype(detail): detail holds the values the message is formatted from
Err(etype, detail) == [NoOutcome EXCEPT !.kind = "error", !.etype = etype, !.detail = detail]

\* AIResponse / ImageResponse: the serving instance, the model, the images'
\* indices, metadata["call_count"] and metadata["provenance"]
Resp(inst, model, images, count, prov) ==
    [kind |-> "response", etype |-> None, detail |-> <<>>, inst |-> inst,
     model |-> model, images |-> images, count |-> count, provenance |-> prov]

IsError(o) == o.kind = "error"

IsResponse(o) == o.kind = "response"

-----------------------------------------------------------------------------
(* Requests *)

\* `not prompt or not prompt.strip()` on the prompts of the model
IsBlank(prompt) == prompt \in {"", " "}

\* a construction that checks the prompt only
ImageRequestInitUnbounded(prompt, num_images) ==
    IF IsBlank(prompt) THEN Err("ValueError", <<"prompt cannot be empty">>) ELSE NoOutcome

\* ImageRequest.__post_init__: the error raised by construction, or NoOutcome
ImageRequestInit(prompt, num_images) ==
    IF IsBlank(prompt) THEN Err("ValueError", <<"prompt cannot be empty">>)
    ELSE IF num_images < 1 THEN Err("ValueError", <<"num_images must be at least 1">>)
    ELSE IF num_images > 10 THEN Err("ValueError", <<"num_images cannot exceed 10">>)
    ELSE NoOutcome

\* the messages of validate_request, without their lists of supported values
SizeMessage(size) == "Size " \o size \o " not supported"

StyleMessage(style) == "Style " \o style \o " not supported"

FormatMessage(format) == "Format " \o format \o " not supported"

BatchMessage(num_images, max_images) ==
    "num_images (" \o ToString(num_images) \o ") exceeds maximum ("
        \o ToString(max_images) \o ")"

ModelMessage(model) == "Model '" \o model \o "' not available"

\* a validation that returns at its first violation
validate_request_first(caps, size, style, format, num_images, model) ==
    IF size \notin caps.sizes THEN <<SizeMessage(size)>>
    ELSE IF style \notin caps.styles THEN <<StyleMessage(style)>>
    ELSE IF format \notin caps.formats THEN <<FormatMessage(format)>>
    ELSE IF num_images > caps.max_images THEN <<BatchMessage(num_images, caps.max_images)>>
    ELSE IF Truthy(model) /\ model \notin caps.models THEN <<ModelMessage(model)>>
    ELSE <<>>

\* BaseImageProvider.validate_request against the capabilities caps of self:
\* every check appends, none returns early
validate_request_caps(caps, size, style, format, num_images, model) ==
    (IF size \notin caps.sizes THEN <<SizeMessage(size)>> ELSE <<>>)
    \o (IF style \notin caps.styles THEN <<StyleMessage(style)>> ELSE <<>>)
    \o (IF format \notin caps.formats THEN <<FormatMessage(format)>> ELSE <<>>)
    \o (IF num_images > caps.max_images
        THEN <<BatchMessage(num_images, caps.max_images)>> ELSE <<>>)
    \o (IF Truthy(model) /\ model \notin caps.models THEN <<ModelMessage(model)>> ELSE <<>>)

\* BaseImageProvider.validate_request of the provider instance inst
validate_request(inst, size, style, format, num_images, model) ==
    validate_request_caps(Capabilities(inst), size, style, format, num_images, model)

-----------------------------------------------------------------------------
(* Registry lookups *)

\* the provider a lookup returns, with the registry name it was found under
Found(name, inst) == [found |-> TRUE, name |-> name, inst |-> inst, error |-> NoOutcome]

NotFound(error) == [found |-> FALSE, name |-> None, inst |-> None, error |-> error]

\* a lookup that gives the provider registered first, whatever the name
get_provider_first(name) ==
    IF providers = <<>>
    THEN NotFound(Err("ValueError", <<"No providers configured">>))
    ELSE Found(providers[1].name, providers[1].inst)

\* AIIntegrator.get_provider; self.providers[...] raises KeyError on a missing key
get_provider(name) ==
    IF name = None
    THEN IF default_provider = None
         THEN NotFound(Err("ValueError", <<"No providers configured">>))
         ELSE IF Has(providers, default_provider)
              THEN Found(default_provider, Lookup(providers, default_provider))
              ELSE NotFound(Err("KeyError", <<default_provider>>))
    ELSE IF ~Has(providers, name)
         THEN NotFound(Err("ValueError", <<"Provider not found", name>>))
         ELSE Found(name, Lookup(providers, name))

\* AIIntegrator.get_image_provider
get_image_provider(name) ==
    IF name = None
    THEN IF default_image_provider = None
         THEN NotFound(Err("ValueError", <<"No image providers configured">>))
         ELSE IF Has(image_providers, default_image_provider)
              THEN Found(default_image_provider, Lookup(image_providers, default_image_provider))
              ELSE NotFound(Err("KeyError", <<default_image_provider>>))
    ELSE IF ~Has(image_providers, name)
         THEN NotFound(Err("ValueError", <<"Image provider not found", name>>))
         ELSE Found(name, Lookup(image_providers, name))

-----------------------------------------------------------------------------
(* Registry mutations *)

TextOn == half \in {"text", "both"}

ImageOn == half \in {"image", "both"}

callVars == <<call_count, call, tasks, uuids, half, nCalls, applied>>

\* an add that always makes the added name the default
DefaultAfterAddAlways(dflt, name) == name

\* the default after add_provider / add_image_provider
DefaultAfterAdd(dflt, name) == IF dflt = None THEN name ELSE dflt

\* a set-default that never moves the default
DefaultAfterSetIgnored(d, dflt, name) == dflt

\* a set-default that does not look the name up
DefaultAfterSetUnchecked(d, dflt, name) == name

\* the default after set_default_provider / set_default_image_provider, which
\* raise ValueError and change nothing when name is not in the dict d
DefaultAfterSet(d, dflt, name) == IF ~Has(d, name) THEN dflt ELSE name

\* a remove that leaves the default alone
DefaultAfterRemoveStale(d, dflt, name) == dflt

\* the default after remove_provider / remove_image_provider deleted name from
\* the dict, of which d is what remains
DefaultAfterRemove(d, dflt, name) == IF dflt = name THEN FirstKey(d) ELSE dflt

\* AIIntegrator.add_provider
add_provider(name, inst) ==
    /\ TextOn /\ nMut < MaxMut
    /\ providers' = DictSet(providers, name, inst)
    /\ default_provider' = DefaultAfterAdd(default_provider, name)
    /\ last_added' = [last_added EXCEPT ![name] = inst]
    /\ nMut' = nMut + 1
    /\ UNCHANGED <<image_providers, default_image_provider, last_image_added, callVars>>

\* AIIntegrator.remove_provider
remove_provider(name) ==
    /\ TextOn /\ nMut < MaxMut
    /\ IF Has(providers, name)
       THEN /\ providers' = DictDel(providers, name)
            /\ default_provider' = DefaultAfterRemove(providers', default_provider, name)
       ELSE UNCHANGED <<providers, default_provider>>
    /\ last_added' = [last_added EXCEPT ![name] = None]
    /\ nMut' = nMut + 1
    /\ UNCHANGED <<image_providers, default_image_provider, last_image_added, callVars>>

\* what set_default_provider / set_default_image_provider raises: notfound is
\* the message's text
set_default_raises(d, name, notfound) ==
    IF ~Has(d, name) THEN Err("ValueError", <<notfound, name>>) ELSE NoOutcome

\* AIIntegrator.set_default_provider: raises ValueError, changing nothing, on
\* a name that is not registered
set_default_provider(name) ==
    /\ TextOn /\ nMut < MaxMut
    /\ default_provider' = DefaultAfterSet(providers, default_provider, name)
    /\ nMut' = nMut + 1
    /\ UNCHANGED <<providers, image_providers, default_image_provider,
                   last_added, last_image_added, callVars>>

\* an add_image_provider that writes the text registry's default
add_image_provider_shared(name, inst) ==
    /\ ImageOn /\ nMut < MaxMut
    /\ image_providers' = DictSet(image_providers, name, inst)
    /\ default_provider' = DefaultAfterAdd(default_image_provider, name)
    /\ default_image_provider' = default_provider'
    /\ last_image_added' = [last_image_added EXCEPT ![name] = inst]
    /\ nMut' = nMut + 1
    /\ UNCHANGED <<providers, last_added, callVars>>

\* AIIntegrator.add_image_provider
add_image_provider(name, inst) ==
    /\ ImageOn /\ nMut < MaxMut
    /\ image_providers' = DictSet(image_providers, name, inst)
    /\ default_image_provider' = DefaultAfterAdd(default_image_provider, name)
    /\ last_image_added' = [last_image_added EXCEPT ![name] = inst]
    /\ nMut' = nMut + 1
    /\ UNCHANGED <<providers, default_provider, last_added, callVars>>

\* AIIntegrator.remove_image_provider
remove_image_provider(name) ==
    /\ ImageOn /\ nMut < MaxMut
    /\ IF Has(image_providers, name)
       THEN /\ image_providers' = DictDel(image_providers, name)
            /\ default_image_provider' =
                   DefaultAfterRemove(image_providers', default_image_provider, name)
       ELSE UNCHANGED <<image_providers, default_image_provider>>
    /\ last_image_added' = [last_image_added EXCEPT ![name] = None]
    /\ nMut' = nMut + 1
    /\ UNCHANGED <<providers, default_provider, last_added, callVars>>

\* AIIntegrator.set_default_image_provider
set_default_image_provider(name) ==
    /\ ImageOn /\ nMut < MaxMut
    /\ default_image_provider' =
           DefaultAfterSet(image_providers, default_image_provider, name)
    /\ nMut' = nMut + 1
    /\ UNCHANGED <<providers, default_provider, image_providers,
                   last_added, last_image_added, callVars>>

-----------------------------------------------------------------------------
(* Inputs of the orchestrator calls *)

Prompts == {"p"}

\* keys of a fan-out's providers_config
ConfigKeys == {"a", "b"}

\* generate's model argument; in a providers_config, "model" may be absent
\* (config.get gives None) or empty
TextModelArgs == {"mock-small", "local-default"}

TextOpts == [model : TextModelArgs \cup {None, ""}, num_images : {1}]

\* generate_image's num_images and model arguments: the defaults, a batch over
\* every provider's maximum with a model only the mock provider has, a request
\* that cannot be built
ImageOpts == {[model |-> None, num_images |-> 1],
              [model |-> "mock-image-v1", num_images |-> 5],
              [model |-> None, num_images |-> 0]}

\* generate_image's defaults for size and style, ImageRequest's for format
DefaultSize == "1024x1024"

DefaultStyle == "photorealistic"

DefaultFormat == "png"

\* a providers_config: a dict, so its keys are distinct; iteration is in insertion order
ConfigsOf(Opts) ==
    LET E == {[name |-> n, model |-> o.model, num_images |-> o.num_images] :
                  n \in ConfigKeys, o \in Opts}
    IN  {c \in UNION {[1..k -> E] : k \in 0..Cardinality(ConfigKeys)} :
            \A i, j \in DOMAIN c : i # j => c[i].name # c[j].name}

-----------------------------------------------------------------------------
(* Coroutines: created, then run up to the provider's own await (inflight), *)
(* then done with a response or an error                                    *)

NewTask(name, model, num_images) ==
    [pc |-> "created", name |-> name, model |-> model, num_images |-> num_images,
     resolved |-> None, inst |-> None, invoked |-> FALSE, count |-> 0,
     prov |-> NoProv, outcome |-> NoOutcome]

\* the coroutine ends with a response or an error
Raised(t, o) == [t EXCEPT !.pc = "done", !.outcome = o]

\* provider_instance = self.get_provider(provider) gave r
Resolved(t, r) == [t EXCEPT !.resolved = r.name, !.inst = r.inst]

\* the provider's generation call has been entered and awaits its backend
Invoked(t, count, prov) ==
    [t EXCEPT !.pc = "inflight", !.invoked = TRUE, !.count = count, !.prov = prov]

\* the provider's generation call has been entered and raised before any await
InvokedRaised(t, o) == [t EXCEPT !.pc = "done", !.invoked = TRUE, !.outcome = o]

\* hash_content, kept injective on the texts of the model
hash_content(content) == "sha256:" \o content

\* generate_request_id: the text of the n-th uuid4 of the run, which no
\* other call returns
generate_request_id(n) == "uuid-" \o ToString(n)

\* datetime.now(timezone.utc).isoformat() where the model keeps no clock
Now == "t1"

create_provenance_fresh_id(model_id, provider_name, template_id, template_version, input_content, weights_hash, policies, request_id, now) ==
    [request_id |-> generate_request_id(uuids + 1),
     timestamp |-> now,
     template_id |-> template_id,
     template_version |-> template_version,
     input_hash |-> IF Truthy(input_content) THEN hash_content(input_content) ELSE None,
     input_sha256 |-> None,
     model_id |-> model_id,
     model_version |-> None,
     weights_hash |-> weights_hash,
     provider_name |-> provider_name,
     provider_config_hash |-> None,
     policies_applied |-> IF policies \in {None, "[]"} THEN "[]" ELSE policies,
     governance_safe |-> "True",
     latency_ms |-> None]

\* create_provenance at the clock reading now: the envelope with the request
\* id given or else a fresh one, the hash of a non-empty input_content, the
\* policies or an empty list, and the defaults of the fields not passed
create_provenance(model_id, provider_name, template_id, template_version, input_content, weights_hash, policies, request_id, now) ==
    [request_id |-> IF Truthy(request_id) THEN request_id
                    ELSE generate_request_id(uuids + 1),
     timestamp |-> now,
     template_id |-> template_id,
     template_version |-> template_version,
     input_hash |-> IF Truthy(input_content) THEN hash_content(input_content) ELSE None,
     input_sha256 |-> None,
     model_id |-> model_id,
     model_version |-> None,
     weights_hash |-> weights_hash,
     provider_name |-> provider_name,
     provider_config_hash |-> None,
     policies_applied |-> IF policies \in {None, "[]"} THEN "[]" ELSE policies,
     governance_safe |-> "True",
     latency_ms |-> None]

\* the provider's generate, up to the point where a provider awaits its
\* backend: MockProvider counts the call.  The mock and local providers have no
\* await of their own; they stand for providers that do, so the answer is
\* delivered in a later step and every interleaving a suspending provider
\* allows is covered
ProviderGenerateBegin(t) ==
    Invoked(t, IF t.inst \in MockInsts THEN call_count[t.inst] + 1 ELSE 0, NoProv)

\* JSON values: a string, a number, null, or an object; a Python dict is its
\* items in insertion order, each a [key, value]
JStr(str) == [kind |-> "str", text |-> str, items |-> <<>>]

JNum(n) == [kind |-> "num", text |-> ToString(n), items |-> <<>>]

JNull == [kind |-> "null", text |-> "null", items |-> <<>>]

JObj(items) == [kind |-> "obj", text |-> "", items |-> items]

\* Optional[str] as a JSON value
JOpt(x) == IF x = None THEN JNull ELSE JStr(x)

\* the keys of the model in the order Python sorts str
KeyOrder == <<"a", "design_context", "format", "m", "model", "negative_prompt",
              "num_images", "prompt", "quality", "seed", "size", "style", "z">>

KeyRank(k) == CHOOSE i \in DOMAIN KeyOrder : KeyOrder[i] = k

\* sort_keys=True on the items of one dict
SortedItems(items) == SortSeq(items, LAMBDA x, y : KeyRank(x.key) < KeyRank(y.key))

\* a dump that writes the items in insertion order
UnsortedItems(items) == items

\* the items of one dict in the order json.dumps writes them
DumpOrder(items) == SortedItems(items)

RECURSIVE JoinPairs(_, _)
RECURSIVE Dumps(_)
\* json.dumps(value, sort_keys=True, separators=(',', ':'))
Dumps(v) ==
    IF v.kind = "str" THEN "\"" \o v.text \o "\""
    ELSE IF v.kind \in {"num", "null"} THEN v.text
    ELSE "{" \o JoinPairs(DumpOrder(v.items), 1) \o "}"

\* the "key":value texts of items from the i-th on, separated by commas
JoinPairs(items, i) ==
    IF i > Len(items) THEN ""
    ELSE "\"" \o items[i].key \o "\":" \o Dumps(items[i].value)
         \o (IF i < Len(items) THEN "," ELSE "") \o JoinPairs(items, i + 1)

\* canonical_json of the dict whose items are data
canonical_json(data) == Dumps(JObj(data))

\* hash_dict: the same dump, hashed
hash_dict(data) == hash_content(Dumps(JObj(data)))

hash_input_packet(packet) == hash_content(canonical_json(packet))

\* the input packet ToolboxImageProvider hashes for the envelope
_build_input_packet(t, prompt) ==
    <<[key |-> "prompt", value |-> JStr(prompt)],
      [key |-> "negative_prompt", value |-> JNull],
      [key |-> "size", value |-> JStr(DefaultSize)],
      [key |-> "style", value |-> JStr(DefaultStyle)],
      [key |-> "format", value |-> JStr(DefaultFormat)],
      [key |-> "num_images", value |-> JNum(t.num_images)],
      [key |-> "seed", value |-> JNull],
      [key |-> "model", value |-> JOpt(t.model)],
      [key |-> "quality", value |-> JStr("standard")],
      [key |-> "design_context", value |-> JNull]>>

\* the provider's generate_image, up to its first await: MockImageProvider
\* counts the call; ToolboxImageProvider validates again, gets its HTTP client
\* (ImportError when httpx cannot be imported) and builds the provenance
\* envelope, its input hash that of the input packet, before it posts the
\* request
ProviderGenerateImageBegin(t, prompt, httpx) ==
    IF t.inst \in MockInsts
    THEN Invoked(t, call_count[t.inst] + 1, NoProv)
    ELSE LET errors == validate_request(t.inst, DefaultSize, DefaultStyle, DefaultFormat,
                                        t.num_images, t.model)
         IN  IF errors # <<>>
             THEN InvokedRaised(t, Err("ImageGenerationError",
                                       <<"Invalid request">> \o errors))
             ELSE IF ~httpx
             THEN InvokedRaised(t, Err("ImportError", <<"httpx required">>))
             ELSE Invoked(t, 0,
                          [create_provenance(PyOr(t.model, "dall-e-3"), "ToolboxImage",
                                             None, None, prompt, None, None, None, Now)
                               EXCEPT !.input_sha256 =
                                   hash_input_packet(_build_input_packet(t, prompt))])

\* AIIntegrator.generate up to the await of provider_instance.generate
GenerateBegin(t, prompt) ==
    LET provider == t.name
        r == get_provider(provider)
        t1 == Resolved(t, r)
    IN  IF ~r.found THEN Raised(t, r.error)
        ELSE IF ~validate_model(r.inst, t.model)
        THEN Raised(t1, Err("ModelNotFoundError",
                            <<t.model, PyOr(provider, default_provider)>>))
        ELSE ProviderGenerateBegin(t1)

\* a generate_image that calls the provider without validating the request
GenerateImageBeginUnvalidated(t, prompt, httpx) ==
    LET r == get_image_provider(t.name)
        t1 == Resolved(t, r)
        bad == ImageRequestInit(prompt, t.num_images)
    IN  IF ~r.found THEN Raised(t, r.error)
        ELSE IF IsError(bad) THEN Raised(t1, bad)
        ELSE ProviderGenerateImageBegin(t1, prompt, httpx)

\* AIIntegrator.generate_image up to the await of provider_instance.generate_image
GenerateImageBegin(t, prompt, httpx) ==
    LET r == get_image_provider(t.name)
        t1 == Resolved(t, r)
        bad == ImageRequestInit(prompt, t.num_images)
        errors == validate_request(r.inst, DefaultSize, DefaultStyle, DefaultFormat,
                                   t.num_images, t.model)
    IN  IF ~r.found THEN Raised(t, r.error)
        ELSE IF IsError(bad) THEN Raised(t1, bad)
        ELSE IF errors # <<>>
        THEN Raised(t1, Err("ValueError", <<"Invalid image request">> \o errors))
        ELSE ProviderGenerateImageBegin(t1, prompt, httpx)

\* a call that is served by whatever the registry holds under the task's name
\* when the await is over
ProviderGenerateEndLateBound(t) ==
    IF ~get_provider(t.name).found THEN get_provider(t.name).error
    ELSE IF get_provider(t.name).inst = "mock1"
    THEN Resp("mock1", t.model, <<>>, t.count, NoProv)
    ELSE Err("NotImplementedError", <<"Subclasses must implement generate()">>)

\* what the provider's call gives once its await is over: MockProvider
\* answers, LocalProvider.generate raises NotImplementedError
ProviderGenerateEnd(t) ==
    IF t.inst = "mock1"
    THEN Resp(t.inst, t.model, <<>>, t.count, NoProv)
    ELSE Err("NotImplementedError", <<"Subclasses must implement generate()">>)

\* a _parse_response that leaves the envelope out of the metadata
ProviderGenerateImageEndNoProvenance(t, status) ==
    IF t.inst = "imock1"
    THEN Resp(t.inst, PyOr(t.model, "mock-image-v1"),
              [i \in 1..t.num_images |-> i - 1], t.count, NoProv)
    ELSE IF status = 200
         THEN Resp(t.inst, PyOr(t.model, "unknown"),
                   [i \in 1..t.num_images |-> i - 1], 0, NoProv)
         ELSE Err("ToolboxConnectionError", <<"Toolbox server error">>)

\* MockImageProvider answers with num_images images indexed from 0;
\* ToolboxImageProvider parses a 200 answer, attaching the envelope, and maps
\* any other status to an error
ProviderGenerateImageEnd(t, status) ==
    IF t.inst = "imock1"
    THEN Resp(t.inst, PyOr(t.model, "mock-image-v1"),
              [i \in 1..t.num_images |-> i - 1], t.count, NoProv)
    ELSE IF status = 200
         THEN Resp(t.inst, PyOr(t.model, "unknown"),
                   [i \in 1..t.num_images |-> i - 1], 0, t.prov)
         ELSE Err("ToolboxConnectionError", <<"Toolbox server error">>)

\* the HTTP statuses the toolbox backend answers with in the model
HttpStatuses == {200, 500}

-----------------------------------------------------------------------------
(* Orchestrator calls *)

FanModes == {"generate_parallel", "generate_images_parallel"}

SingleModes == {"generate", "generate_image"}

IdleCall == [mode |-> "idle", state |-> "idle", prompt |-> None, config |-> <<>>,
             result |-> <<>>, error |-> NoOutcome]

NewCall(mode, prompt, config) == [IdleCall EXCEPT !.mode = mode, !.state = "awaiting",
                                                  !.prompt = prompt, !.config = config]

\* provider state a coroutine's step leaves behind
CountAfter(t) ==
    IF t.pc = "inflight" /\ t.inst \in MockInsts
    THEN [call_count EXCEPT ![t.inst] = @ + 1]
    ELSE call_count

UuidsAfter(t) == IF t.prov # NoProv THEN uuids + 1 ELSE uuids

\* the caller of a single dispatch gets the response, or the error is raised to it
Settle(c, name, o) ==
    IF IsError(o)
    THEN [c EXCEPT !.state = "raised", !.error = o]
    ELSE [c EXCEPT !.state = "returned", !.result = <<[name |-> name, outcome |-> o]>>]

\* await integrator.generate(prompt, model, provider), up to the provider's await
generate(provider, prompt, model) ==
    /\ TextOn /\ call.state = "idle" /\ nCalls < MaxCalls
    /\ LET t == GenerateBegin(NewTask(provider, model, 1), prompt)
           c == NewCall("generate", prompt,
                        <<[name |-> provider, model |-> model, num_images |-> 1]>>)
       IN  /\ tasks' = <<t>>
           /\ call' = IF t.pc = "done" THEN Settle(c, provider, t.outcome) ELSE c
           /\ call_count' = CountAfter(t)
           /\ uuids' = UuidsAfter(t)
    /\ nCalls' = nCalls + 1
    /\ UNCHANGED <<regVars, applied, half, nMut>>

\* await integrator.generate_image(prompt, provider, num_images=, model=), up
\* to the provider's await
generate_image(provider, prompt, opt, httpx) ==
    /\ ImageOn /\ call.state = "idle" /\ nCalls < MaxCalls
    /\ LET t == GenerateImageBegin(NewTask(provider, opt.model, opt.num_images),
                                   prompt, httpx)
           c == NewCall("generate_image", prompt,
                        <<[name |-> provider, model |-> opt.model,
                           num_images |-> opt.num_images]>>)
       IN  /\ tasks' = <<t>>
           /\ call' = IF t.pc = "done" THEN Settle(c, provider, t.outcome) ELSE c
           /\ call_count' = CountAfter(t)
           /\ uuids' = UuidsAfter(t)
    /\ nCalls' = nCalls + 1
    /\ UNCHANGED <<regVars, applied, half, nMut>>

\* the provider's await of a single dispatch is over: generate / generate_image
\* returns the response or lets the provider's error through
dispatch_return(status) ==
    /\ call.mode \in SingleModes /\ call.state = "awaiting"
    /\ tasks[1].pc = "inflight"
    /\ LET o == IF call.mode = "generate" THEN ProviderGenerateEnd(tasks[1])
                ELSE ProviderGenerateImageEnd(tasks[1], status)
       IN  /\ tasks' = <<Raised(tasks[1], o)>>
           /\ call' = Settle(call, tasks[1].name, o)
    /\ UNCHANGED <<regVars, applied, call_count, uuids, half, nMut, nCalls>>

\* generate_parallel's loop: the index of the first entry whose config.get("model")
\* is falsy, or 0
FirstWithoutModel(config) ==
    IF \E i \in DOMAIN config : ~Truthy(config[i].model)
    THEN CHOOSE i \in DOMAIN config :
             /\ ~Truthy(config[i].model)
             /\ \A j \in 1..(i - 1) : Truthy(config[j].model)
    ELSE 0

\* coroutines that run their provider call as soon as they are created
CoroutinesEager(config, n) ==
    [i \in 1..n |->
        Invoked(NewTask(config[i].name, config[i].model, config[i].num_images), 0, NoProv)]

\* the coroutine objects the loop creates for entries 1..n of the config
Coroutines(config, n) ==
    [i \in 1..n |-> NewTask(config[i].name, config[i].model, config[i].num_images)]

\* AIIntegrator.generate_parallel up to the await of asyncio.gather: an entry
\* without a model raises ValueError out of the loop, leaving the coroutines
\* created for the entries before it unstarted
generate_parallel(prompt, config) ==
    /\ TextOn /\ call.state = "idle" /\ nCalls < MaxCalls
    /\ LET k == FirstWithoutModel(config)
           c == NewCall("generate_parallel", prompt, config)
       IN  IF k # 0
           THEN /\ tasks' = Coroutines(config, k - 1)
                /\ call' = [c EXCEPT !.state = "raised",
                                     !.error = Err("ValueError",
                                                   <<"Model not specified", config[k].name>>)]
           ELSE /\ tasks' = Coroutines(config, Len(config))
                /\ call' = c
    /\ nCalls' = nCalls + 1
    /\ UNCHANGED <<regVars, applied, call_count, uuids, half, nMut>>

\* AIIntegrator.generate_images_parallel up to the await of asyncio.gather
generate_images_parallel(prompt, config) ==
    /\ ImageOn /\ call.state = "idle" /\ nCalls < MaxCalls
    /\ tasks' = Coroutines(config, Len(config))
    /\ call' = NewCall("generate_images_parallel", prompt, config)
    /\ nCalls' = nCalls + 1
    /\ UNCHANGED <<regVars, applied, call_count, uuids, half, nMut>>

\* the event loop starts the i-th task gather wrapped: the coroutine runs up
\* to the provider's await, or to the error it raises before it
task_start(i, httpx) ==
    /\ call.mode \in FanModes /\ call.state = "awaiting"
    /\ i \in DOMAIN tasks /\ tasks[i].pc = "created"
    /\ \A j \in 1..(i - 1) : tasks[j].pc # "created"
    /\ LET t == IF call.mode = "generate_parallel"
                THEN GenerateBegin(tasks[i], call.prompt)
                ELSE GenerateImageBegin(tasks[i], call.prompt, httpx)
       IN  /\ tasks' = [tasks EXCEPT ![i] = t]
           /\ call_count' = CountAfter(t)
           /\ uuids' = UuidsAfter(t)
    /\ UNCHANGED <<regVars, applied, call, half, nMut, nCalls>>

\* the provider's await of the i-th task is over, in any order among the tasks
task_finish(i, status) ==
    /\ call.mode \in FanModes /\ call.state = "awaiting"
    /\ i \in DOMAIN tasks /\ tasks[i].pc = "inflight"
    /\ LET o == IF call.mode = "generate_parallel" THEN ProviderGenerateEnd(tasks[i])
                ELSE ProviderGenerateImageEnd(tasks[i], status)
       IN  tasks' = [tasks EXCEPT ![i] = Raised(tasks[i], o)]
    /\ UNCHANGED <<regVars, applied, call, call_count, uuids, half, nMut, nCalls>>

\* a gather that is over only when every awaitable has ended without an error
GatherDoneAllSucceeded(ts) ==
    \A i \in DOMAIN ts : ts[i].pc = "done" /\ ~IsError(ts[i].outcome)

\* a gather that is over as soon as one awaitable has raised
GatherDoneOnFirstError(ts) ==
    \/ \A i \in DOMAIN ts : ts[i].pc = "done"
    \/ \E i \in DOMAIN ts : ts[i].pc = "done" /\ IsError(ts[i].outcome)

\* asyncio.gather(*aws, return_exceptions=True) is done once every awaitable is
GatherDone(ts) == \A i \in DOMAIN ts : ts[i].pc = "done"

\* its result: the outcomes in the order of the awaitables, errors as values
GatherResults(ts) == [i \in DOMAIN ts |-> ts[i].outcome]

\* a zip that pairs the names with the results taken from the other end
ZipResultsReversed(ts, results) ==
    [i \in DOMAIN ts |-> [name |-> ts[i].name, outcome |-> results[Len(ts) + 1 - i]]]

\* {name: result for name, result in zip(tasks.keys(), results)}
ZipResults(ts, results) ==
    [i \in DOMAIN ts |-> [name |-> ts[i].name, outcome |-> results[i]]]

\* a gather without return_exceptions: the first error is raised to the caller
GatherSettleRaising(c, ts) ==
    IF \E i \in DOMAIN ts : IsError(ts[i].outcome)
    THEN [c EXCEPT !.state = "raised",
                   !.error = ts[CHOOSE i \in DOMAIN ts : IsError(ts[i].outcome)].outcome]
    ELSE [c EXCEPT !.state = "returned",
                   !.result = [i \in DOMAIN ts |-> [name |-> ts[i].name,
                                                    outcome |-> ts[i].outcome]]]

\* results = await asyncio.gather(..., return_exceptions=True), then the return
\* of the mapping: gather raises nothing, so the fan-out returns
GatherSettle(c, ts) ==
    [c EXCEPT !.state = "returned", !.result = ZipResults(ts, GatherResults(ts))]

\* the fan-out's await of gather is over and it returns the mapping
gather_return ==
    /\ call.mode \in FanModes /\ call.state = "awaiting"
    /\ GatherDone(tasks)
    /\ call' = GatherSettle(call, tasks)
    /\ UNCHANGED <<regVars, applied, tasks, call_count, uuids, half, nMut, nCalls>>

\* the caller is done with the call's result and may make another call
call_end ==
    /\ call.state \in {"returned", "raised"}
    /\ call' = IdleCall
    /\ tasks' = <<>>
    /\ UNCHANGED <<regVars, applied, call_count, uuids, half, nMut, nCalls>>

-----------------------------------------------------------------------------
(* Specification *)

\* AIIntegrator.__init__; the mock providers are constructed with call_count 0
Init ==
    /\ providers = <<>> /\ default_provider = None
    /\ image_providers = <<>> /\ default_image_provider = None
    /\ call_count = [i \in MockInsts |-> 0]
    /\ call = IdleCall
    /\ tasks = <<>>
    /\ uuids = 0
    /\ last_added = [n \in Names |-> None]
    /\ last_image_added = [n \in Names |-> None]
    /\ half \in {"text", "image"}
    /\ nMut = 0 /\ nCalls = 0
    /\ applied = NoApplied

Next ==
    \/ \E n \in Names, i \in TextInsts : add_provider(n, i)
    \/ \E n \in Names : remove_provider(n)
    \/ \E n \in Names : set_default_provider(n)
    \/ \E n \in Names, i \in ImageInsts : add_image_provider(n, i)
    \/ \E n \in Names : remove_image_provider(n)
    \/ \E n \in Names : set_default_image_provider(n)
    \/ \E n \in Names \cup {None}, p \in Prompts, m \in TextModelArgs : generate(n, p, m)
    \/ \E n \in Names \cup {None}, p \in Prompts, o \in ImageOpts, h \in BOOLEAN :
           generate_image(n, p, o, h)
    \/ \E s \in HttpStatuses : dispatch_return(s)
    \/ \E p \in Prompts, c \in ConfigsOf(TextOpts) : generate_parallel(p, c)
    \/ \E p \in Prompts, c \in ConfigsOf(ImageOpts) : generate_images_parallel(p, c)
    \/ \E i \in 1..Cardinality(ConfigKeys), h \in BOOLEAN : task_start(i, h)
    \/ \E i \in 1..Cardinality(ConfigKeys), s \in HttpStatuses : task_finish(i, s)
    \/ gather_return
    \/ call_end

Spec == Init /\ [][Next]_vars

\* One integrator whose callers use both registries, and only mutate them
InitReg ==
    /\ providers = <<>> /\ default_provider = None
    /\ image_providers = <<>> /\ default_image_provider = None
    /\ call_count = [i \in MockInsts |-> 0]
    /\ call = IdleCall
    /\ tasks = <<>>
    /\ uuids = 0
    /\ last_added = [n \in Names |-> None]
    /\ last_image_added = [n \in Names |-> None]
    /\ half = "both"
    /\ nMut = 0 /\ nCalls = 0
    /\ applied = NoApplied

NextReg ==
    \/ \E n \in Names, i \in TextInsts : add_provider(n, i)
    \/ \E n \in Names : remove_provider(n)
    \/ \E n \in Names : set_default_provider(n)
    \/ \E n \in Names, i \in ImageInsts : add_image_provider(n, i)
    \/ \E n \in Names : remove_image_provider(n)
    \/ \E n \in Names : set_default_image_provider(n)

SpecReg == InitReg /\ [][NextReg]_vars

-----------------------------------------------------------------------------
(* Properties *)

ImageModes == {"generate_image", "generate_images_parallel"}

TextModes == {"generate", "generate_parallel"}

\* the default of a registry, if set, is one of its keys, and is unset when
\* the registry is empty
DefaultConsistent(d, dflt) ==
    /\ dflt # None => Has(d, dflt)
    /\ d = <<>> => dflt = None

\* C1: after any sequence of add, remove and set-default operations on either
\* registry, the default name, if set, is a key of that registry's map, and
\* the default is absent whenever the map is empty.
C1_DefaultIsRegistered ==
    /\ DefaultConsistent(providers, default_provider)
    /\ DefaultConsistent(image_providers, default_image_provider)

\* C1 witness: the entry the registry got first has been removed while it was
\* the default, or the default was moved: the default is the second of two entries
C1_Witness ==
    /\ Len(providers) = 2
    /\ default_provider = providers[2].name
    /\ nMut = 3

\* C9: with registry mutations interleaved with in-flight dispatches and
\* fan-outs, the default (if set) names a registered provider whenever a task
\* is suspended in a provider call, and no dispatch ever resolved a default
\* name that was missing from the map (a KeyError out of the lookup).
C9_MutationsAtomicAtSuspension ==
    /\ (\E i \in DOMAIN tasks : tasks[i].pc = "inflight") =>
           /\ DefaultConsistent(providers, default_provider)
           /\ DefaultConsistent(image_providers, default_image_provider)
    /\ \A i \in DOMAIN tasks : tasks[i].outcome.etype # "KeyError"
    /\ call.error.etype # "KeyError"

\* C9 witness: a dispatch resolved the default provider and is suspended in
\* its call, and the registry has been emptied meanwhile
C9_Witness ==
    /\ \E i \in DOMAIN tasks :
           /\ tasks[i].pc = "inflight"
           /\ tasks[i].name = None
           /\ tasks[i].resolved # None
    /\ providers = <<>> /\ image_providers = <<>>

\* what get(name) must give in a registry whose history is h and default dflt;
\* notfound and none are the messages of the two errors
ExpectedGet(h, dflt, name, notfound, none) ==
    IF name = None
    THEN IF \A n \in Names : h[n] = None
         THEN NotFound(Err("ValueError", <<none>>))
         ELSE IF dflt \in Names /\ h[dflt] # None
              THEN Found(dflt, h[dflt])
              ELSE NotFound(Err("KeyError", <<dflt>>))
    ELSE IF h[name] # None
         THEN Found(name, h[name])
         ELSE NotFound(Err("ValueError", <<notfound, name>>))

\* C10: after any sequence of registry operations, get(name) returns the
\* provider most recently added under name if name is registered and fails
\* with a not-found error otherwise; get() returns the provider registered
\* under the current default and fails with 'no providers configured' exactly
\* when the registry is empty.
C10_GetReturnsLastAdded ==
    /\ \A n \in Names \cup {None} :
           /\ get_provider(n) =
                  ExpectedGet(last_added, default_provider, n,
                              "Provider not found", "No providers configured")
           /\ get_image_provider(n) =
                  ExpectedGet(last_image_added, default_image_provider, n,
                              "Image provider not found", "No image providers configured")
    /\ get_provider(None).error.etype # "KeyError"
    /\ get_image_provider(None).error.etype # "KeyError"

\* C10 witness: two names are registered, the default is not the first of
\* them, and a dispatch that gave no name was served by the default's provider
C10_Witness ==
    /\ Len(image_providers) = 2
    /\ default_image_provider = image_providers[2].name
    /\ Len(tasks) = 1 /\ tasks[1].name = None
    /\ tasks[1].resolved = default_image_provider
    /\ tasks[1].inst = last_image_added[default_image_provider]

\* the fan-out has ended, by returning its mapping or by raising
FanEnded == call.mode \in FanModes /\ call.state \in {"returned", "raised"}

FanReturned == call.mode \in FanModes /\ call.state = "returned"

\* the listed failures of an entry: an unknown provider, a request or
\* capability validation failure, an error raised by the backend
FailedEntry(t) == t.pc = "done" /\ IsError(t.outcome)

\* the outcomes the entry of task t has when dispatched alone with the same
\* provider lookup: a function of the task's own fields only
AloneOutcomes(t) ==
    IF t.resolved = None
    THEN {Err("ValueError", <<IF call.mode \in TextModes THEN "Provider not found"
                               ELSE "Image provider not found", t.name>>)}
    ELSE IF call.mode \in TextModes
    THEN IF ~validate_model(t.inst, t.model)
         THEN {Err("ModelNotFoundError", <<t.model, t.name>>)}
         ELSE {ProviderGenerateEnd(t)}
    ELSE IF IsError(ImageRequestInit(call.prompt, t.num_images))
    THEN {ImageRequestInit(call.prompt, t.num_images)}
    ELSE IF validate_request(t.inst, DefaultSize, DefaultStyle, DefaultFormat,
                             t.num_images, t.model) # <<>>
    THEN {Err("ValueError",
              <<"Invalid image request">>
              \o validate_request(t.inst, DefaultSize, DefaultStyle, DefaultFormat,
                                  t.num_images, t.model))}
    ELSE IF t.pc = "done" /\ t.outcome.etype = "ImportError"
    THEN {Err("ImportError", <<"httpx required">>)}
    ELSE {ProviderGenerateImageEnd(t, st) : st \in HttpStatuses}

\* C2: in a fan-out, the failure of an entry (unknown provider, validation
\* failure, backend error) is never raised to the caller; it is stored as an
\* error value under the entry's key, and every other entry still runs and
\* maps to the result it has when dispatched alone.
C2_FailuresAreIsolated ==
    call.mode \in FanModes =>
        /\ (\E i \in DOMAIN tasks : FailedEntry(tasks[i])) => call.state # "raised"
        /\ call.state = "returned" =>
               /\ DOMAIN call.result = DOMAIN call.config
               /\ \A i \in DOMAIN call.config :
                      /\ tasks[i].pc = "done"
                      /\ call.result[i] = [name |-> call.config[i].name,
                                           outcome |-> tasks[i].outcome]
                      /\ tasks[i].outcome \in AloneOutcomes(tasks[i])

\* C2 witness: a fan-out over two entries has returned; one names an unknown
\* provider and maps to the error, the other maps to a response
C2_Witness ==
    /\ FanReturned /\ Len(call.result) = 2
    /\ \E i, j \in DOMAIN call.result :
           /\ call.result[i].outcome.etype = "ValueError"
           /\ tasks[i].resolved = None
           /\ IsResponse(call.result[j].outcome)

\* C3: a fan-out ends only after every invocation it issued has settled: when
\* it returns or raises, none of its provider calls is in flight, and when it
\* returns every entry's task is done, whatever the order of completion.
C3_ReturnsAfterAllSettled ==
    FanEnded =>
        /\ \A i \in DOMAIN tasks : tasks[i].pc # "inflight"
        /\ call.state = "returned" =>
               /\ Len(tasks) = Len(call.config)
               /\ \A i \in DOMAIN tasks : tasks[i].pc = "done"

\* C3 witness: a fan-out has returned after two provider calls were in flight,
\* one of which failed in the backend
C3_Witness ==
    /\ FanReturned /\ Len(tasks) = 2
    /\ tasks[1].invoked /\ tasks[2].invoked
    /\ \E i \in DOMAIN tasks : IsError(tasks[i].outcome)

\* C4: in a text fan-out, an entry whose config names no model (absent or
\* empty) is recorded as that entry's error in the returned mapping; the
\* fan-out is not aborted and every other entry appears in the result.
C4_MissingModelIsEntryError ==
    (/\ call.mode = "generate_parallel"
     /\ call.state \in {"returned", "raised"}
     /\ \E i \in DOMAIN call.config : ~Truthy(call.config[i].model))
    => /\ call.state = "returned"
       /\ \A i \in DOMAIN call.config :
              \E j \in DOMAIN call.result :
                  /\ call.result[j].name = call.config[i].name
                  /\ ~Truthy(call.config[i].model) => IsError(call.result[j].outcome)

\* C5: the mapping a fan-out returns has exactly the keys of providers_config,
\* and each key maps to the outcome of the invocation made for that provider
\* name, whatever the completion order.
C5_ResultKeyedByProvider ==
    FanReturned =>
        /\ Len(call.result) = Len(call.config)
        /\ {call.result[i].name : i \in DOMAIN call.result}
               = {call.config[i].name : i \in DOMAIN call.config}
        /\ \A i \in DOMAIN call.result :
               \E j \in DOMAIN tasks :
                   /\ tasks[j].name = call.result[i].name
                   /\ call.result[i].outcome = tasks[j].outcome
                   /\ IsResponse(call.result[i].outcome) =>
                          call.result[i].outcome.inst = tasks[j].inst
                   /\ tasks[j].resolved = None =>
                          call.result[i].outcome.detail[2] = call.result[i].name

\* C5 witness: a returned mapping of two keys whose outcomes differ
C5_Witness ==
    /\ FanReturned /\ Len(call.result) = 2
    /\ call.result[1].outcome # call.result[2].outcome
    /\ IsResponse(call.result[1].outcome) /\ IsResponse(call.result[2].outcome)

\* the step looked up the provider of task i of the new state
LookedUp(i) ==
    /\ tasks'[i].resolved # None
    /\ i \in DOMAIN tasks => tasks[i].resolved = None

\* the violations validate_request gives for the request of task t
Violations(t) ==
    validate_request(t.inst, DefaultSize, DefaultStyle, DefaultFormat, t.num_images, t.model)

C6_Step ==
    \A i \in DOMAIN tasks' :
        (/\ call'.mode \in ImageModes
         /\ LookedUp(i)
         /\ ~IsError(ImageRequestInit(call'.prompt, tasks'[i].num_images)))
        => IF Violations(tasks'[i]) # <<>>
           THEN /\ tasks'[i].pc = "done"
                /\ ~tasks'[i].invoked
                /\ tasks'[i].outcome =
                       Err("ValueError", <<"Invalid image request">> \o Violations(tasks'[i]))
                /\ call_count' = call_count
                /\ uuids' = uuids
           ELSE tasks'[i].invoked

\* C6: an image dispatch validates the request against the resolved provider
\* before it calls the provider: when validate_request gives a non-empty list
\* the dispatch ends in a validation error carrying every violation and the
\* provider's generate_image is not entered (its call count does not change);
\* only a request without violations reaches the provider.
C6_ValidatedBeforeCall == [][C6_Step]_vars

\* C6 witness: a dispatch to the toolbox provider ended in the validation
\* error that carries both violations, and no provider has been called
C6_Witness ==
    /\ call.mode \in ImageModes
    /\ \E i \in DOMAIN tasks :
           /\ tasks[i].pc = "done"
           /\ tasks[i].inst = "toolbox1"
           /\ tasks[i].outcome =
                  Err("ValueError", <<"Invalid image request",
                                      BatchMessage(5, 4), ModelMessage("mock-image-v1")>>)
    /\ \A i \in MockInsts : call_count[i] = 0
    /\ uuids = 0

\* C7: a text dispatch whose model is not in the resolved provider's list ends
\* in ModelNotFound before the provider's generate is entered, and the error
\* names the model and the registry name the provider was resolved under (the
\* explicit name, or the default current at the lookup when none was given).
C7_ModelNotFoundNamesResolved ==
    call.mode \in TextModes =>
        \A i \in DOMAIN tasks :
            (tasks[i].resolved # None /\ ~validate_model(tasks[i].inst, tasks[i].model))
            => /\ tasks[i].pc = "done"
               /\ ~tasks[i].invoked
               /\ tasks[i].outcome =
                      Err("ModelNotFoundError", <<tasks[i].model, tasks[i].resolved>>)

\* the task's provider has made, or is making, its backend call
BackendCalled(t) ==
    \/ t.pc = "inflight"
    \/ t.invoked /\ t.outcome.etype \notin {"ImportError", "ImageGenerationError"}

-----------------------------------------------------------------------------
(* Registry operations, step by step *)

\* every entry but name's is in d2 what it is in d
OthersKept(d, d2, name) ==
    \A m \in Names \ {name} :
        /\ Has(d2, m) <=> Has(d, m)
        /\ Has(d, m) => Lookup(d2, m) = Lookup(d, m)

\* the entries of d2 follow one another as they do in d
OrderKept(d, d2) ==
    \A i, j \in DOMAIN d2 :
        (i < j /\ Has(d, d2[i].name) /\ Has(d, d2[j].name))
        => IndexOf(d, d2[i].name) < IndexOf(d, d2[j].name)

\* add(name, inst) took the registry from (d, dflt) to (d2, dflt2)
AddEffect(d, dflt, d2, dflt2, name, inst) ==
    /\ Has(d2, name) /\ Lookup(d2, name) = inst
    /\ Cardinality({i \in DOMAIN d2 : d2[i].name = name}) = 1
    /\ OthersKept(d, d2, name)
    /\ dflt2 = (IF dflt = None THEN name ELSE dflt)

C11_Step ==
    /\ \A n \in Names, i \in TextInsts :
           add_provider(n, i) =>
               AddEffect(providers, default_provider, providers', default_provider', n, i)
    /\ \A n \in Names, i \in ImageInsts :
           add_image_provider(n, i) =>
               AddEffect(image_providers, default_image_provider,
                         image_providers', default_image_provider', n, i)

\* C11: add(name, provider) maps name to provider, replacing a provider that
\* was registered under name; it makes name the default only when the registry
\* had no default, and otherwise leaves the default and every other entry as
\* they were, so the first-registered name stays the default across later adds.
C11_AddKeepsDefault == [][C11_Step]_vars

\* C11 witness: the first-registered name, still the default, now maps to the
\* other provider, a second name having been added in between
C11_Witness ==
    /\ Len(providers) = 2 /\ default_provider = providers[1].name
    /\ providers[1].inst = "local1" /\ providers[2].inst = "mock1"
    /\ nMut = 3

\* remove(name) took the registry from (d, dflt) to (d2, dflt2)
RemoveEffect(d, dflt, d2, dflt2, name) ==
    /\ ~Has(d2, name)
    /\ OthersKept(d, d2, name)
    /\ OrderKept(d, d2)
    /\ ~Has(d, name) => d2 = d /\ dflt2 = dflt
    /\ (Has(d, name) /\ dflt = name) =>
           /\ dflt2 = (IF d2 = <<>> THEN None ELSE d2[1].name)
           /\ dflt2 # None => Has(d2, dflt2)
    /\ dflt # name => dflt2 = dflt

C12_Step ==
    /\ \A n \in Names :
           remove_provider(n) =>
               RemoveEffect(providers, default_provider, providers', default_provider', n)
    /\ \A n \in Names :
           remove_image_provider(n) =>
               RemoveEffect(image_providers, default_image_provider,
                            image_providers', default_image_provider', n)

SetDefaultEffect(d, dflt, d2, dflt2, name, raised) ==
    /\ d2 = d
    /\ IF Has(d, name)
       THEN dflt2 = name /\ raised = NoOutcome
       ELSE dflt2 = dflt /\ IsError(raised) /\ raised.etype = "ValueError"
                         /\ raised.detail[2] = name

C13_Step ==
    /\ \A n \in Names :
           set_default_provider(n) =>
               SetDefaultEffect(providers, default_provider, providers', default_provider',
                                n, set_default_raises(providers, n, "Provider not found"))
    /\ \A n \in Names :
           set_default_image_provider(n) =>
               SetDefaultEffect(image_providers, default_image_provider,
                                image_providers', default_image_provider', n,
                                set_default_raises(image_providers, n,
                                                   "Image provider not found"))

\* C13: set-default(name) with a name that is not registered fails with a
\* not-found error and leaves the map and the default unchanged; with a
\* registered name it makes name the default and leaves the map unchanged.
C13_SetDefaultChecksName == [][C13_Step]_vars

\* C13 witness: the default was moved to the second of two registered names
\* (and a set-default of the third, unregistered name would raise)
C13_Witness ==
    /\ Len(providers) = 2 /\ default_provider = providers[2].name
    /\ image_providers = <<>>
    /\ nMut = 3
    /\ \E n \in Names : IsError(set_default_raises(providers, n, "Provider not found"))

\* a step is an operation on the text registry / on the image registry
TextRegistryOp ==
    \/ \E n \in Names, i \in TextInsts : add_provider(n, i)
    \/ \E n \in Names : remove_provider(n) \/ set_default_provider(n)

ImageRegistryOp ==
    \/ \E n \in Names, i \in ImageInsts : add_image_provider(n, i)
    \/ \E n \in Names : remove_image_provider(n) \/ set_default_image_provider(n)

C14_Step ==
    /\ ImageRegistryOp => UNCHANGED <<providers, default_provider>>
    /\ TextRegistryOp => UNCHANGED <<image_providers, default_image_provider>>

\* C14: the text and image registries are independent: an add, remove or
\* set-default on one leaves the other's map and default unchanged, also when
\* the same name is used in both.
C14_RegistriesIndependent == [][C14_Step]_vars

\* C14 witness: one name is registered in both registries, is the text
\* default, and is not the image default
C14_Witness ==
    \E n \in Names :
        /\ Has(providers, n) /\ Has(image_providers, n)
        /\ default_provider = n
        /\ default_image_provider \notin {n, None}

-----------------------------------------------------------------------------
(* validate_request as a function of the request and of the capabilities *)

\* the capability sets of the providers of the program and of providers that
\* restrict each capability
CapabilitySets ==
    {Capabilities(i) : i \in ImageInsts}
    \cup [sizes : {{"1024x1024"}, {"256x256", "512x512"}},
          styles : {ImageStyle, {"photorealistic"}},
          formats : {ImageFormat, {"png"}},
          max_images : {1, 4},
          models : {{}, {"mock-image-v1", "mock-image-v2"}}]

\* image requests that can be constructed
ImageRequests ==
    [size : {"1024x1024", "256x256", "1792x1024"},
     style : {"photorealistic", "sketch"},
     format : {"png", "webp"},
     num_images : {1, 2, 4, 5, 10},
     model : {None, "", "mock-image-v1", "dall-e-3"}]

\* the integrator and its providers, which applying a function leaves alone
progVars == <<regVars, call_count, call, tasks, uuids, half, nMut, nCalls>>

\* a caller applies provider.validate_request(request); the function is pure,
\* so one application from the initial state shows all it can do
apply_validate_request(caps, r) ==
    /\ applied = NoApplied
    /\ applied' = [fn |-> "validate_request", args |-> <<caps, r>>,
                   result |-> validate_request_caps(caps, r.size, r.style, r.format,
                                                    r.num_images, r.model)]
    /\ UNCHANGED progVars

NextValidate ==
    /\ applied = NoApplied
    /\ \E caps \in CapabilitySets, r \in ImageRequests : apply_validate_request(caps, r)

SpecValidate == InitReg /\ [][NextValidate]_vars

\* the constraints of caps the request r does not meet, each with its message
Unmet(caps, r) ==
    {c \in {[on |-> "size", bad |-> r.size \notin caps.sizes, msg |-> SizeMessage(r.size)],
            [on |-> "style", bad |-> r.style \notin caps.styles, msg |-> StyleMessage(r.style)],
            [on |-> "format", bad |-> r.format \notin caps.formats,
             msg |-> FormatMessage(r.format)],
            [on |-> "num_images", bad |-> r.num_images > caps.max_images,
             msg |-> BatchMessage(r.num_images, caps.max_images)],
            [on |-> "model", bad |-> r.model \notin {None, ""} /\ r.model \notin caps.models,
             msg |-> ModelMessage(IF r.model = None THEN "" ELSE r.model)]} : c.bad}

\* C15: for every image request and every capability set, validate_request
\* returns exactly one message for each unmet constraint (size, style, format,
\* batch size, named model), never stopping at the first, and returns the empty
\* list exactly when no constraint is violated.
C15_EveryViolationReported ==
    applied.fn = "validate_request" =>
        LET caps == applied.args[1]
            r == applied.args[2]
            errors == applied.result
        IN  /\ Len(errors) = Cardinality(Unmet(caps, r))
            /\ \A c \in Unmet(caps, r) :
                   Cardinality({i \in DOMAIN errors : errors[i] = c.msg}) = 1
            /\ errors = <<>> <=> Unmet(caps, r) = {}

\* C15 witness: a request that violates all five constraints got five messages
C15_Witness ==
    /\ applied.fn = "validate_request"
    /\ Len(applied.result) = 5
    /\ applied.args[2].num_images = 5

-----------------------------------------------------------------------------
(* Single dispatches over every prompt and batch size, on registries that   *)
(* add_provider and add_image_provider calls have filled                    *)

\* ImageRequest.__post_init__ rejects num_images over this
RequestMaxImages == 10

\* registries after no add, after one add, after two adds
TextSetups == {<<>>, <<[name |-> "a", inst |-> "mock1"]>>,
               <<[name |-> "a", inst |-> "mock1"], [name |-> "b", inst |-> "local1"]>>}

ImageSetups == {<<>>, <<[name |-> "a", inst |-> "imock1"]>>,
                <<[name |-> "a", inst |-> "imock1"], [name |-> "b", inst |-> "toolbox1"]>>,
                <<[name |-> "b", inst |-> "toolbox1"], [name |-> "a", inst |-> "imock1"]>>}

\* the history of a registry that adds alone have filled
AddedOf(d) == [n \in Names |-> IF Has(d, n) THEN Lookup(d, n) ELSE None]

InitDispatch ==
    /\ providers \in TextSetups /\ default_provider = FirstKey(providers)
    /\ image_providers \in ImageSetups /\ default_image_provider = FirstKey(image_providers)
    /\ last_added = AddedOf(providers)
    /\ last_image_added = AddedOf(image_providers)
    /\ call_count = [i \in MockInsts |-> 0]
    /\ call = IdleCall
    /\ tasks = <<>>
    /\ uuids = 0
    /\ half = "both"
    /\ nMut = MaxMut /\ nCalls = 0
    /\ applied = NoApplied

\* prompts: one with text, the empty one, one of white space
AllPrompts == {"p", "", " "}

\* batch sizes around both ends of what a request may carry
AllImageOpts == [model : {None, "mock-image-v1"}, num_images : 0..(RequestMaxImages + 1)]

NextDispatch ==
    \/ \E n \in Names \cup {None}, p \in AllPrompts, m \in TextModelArgs : generate(n, p, m)
    \/ \E n \in Names \cup {None}, p \in AllPrompts, o \in AllImageOpts, h \in BOOLEAN :
           generate_image(n, p, o, h)
    \/ \E s \in HttpStatuses : dispatch_return(s)
    \/ call_end

SpecDispatch == InitDispatch /\ [][NextDispatch]_vars

\* the task of the single image dispatch in progress or just ended
ImageDispatch(i) == call.mode = "generate_image" /\ i \in DOMAIN tasks

\* the error the lookup of generate_image raises for the provider argument name
ImageLookupError(name) ==
    IF name = None THEN Err("ValueError", <<"No image providers configured">>)
    ELSE Err("ValueError", <<"Image provider not found", name>>)

\* C16: an image request can be constructed only with 1 <= num_images <= 10,
\* so an image dispatch with num_images outside that range ends in the
\* construction error as soon as its provider is looked up (in the lookup's
\* error when there is no such provider), and no provider is invoked,
\* whatever the provider's own batch limit.
C16_BatchRangeFailsFast ==
    \A i \in DOMAIN tasks :
        (ImageDispatch(i) /\ tasks[i].num_images \notin 1..RequestMaxImages) =>
            /\ tasks[i].pc = "done" /\ ~tasks[i].invoked
            /\ nCalls = 1 => (uuids = 0 /\ \A m \in MockInsts : call_count[m] = 0)
            /\ tasks[i].outcome =
                   IF tasks[i].resolved = None THEN ImageLookupError(tasks[i].name)
                   ELSE IF IsBlank(call.prompt)
                        THEN Err("ValueError", <<"prompt cannot be empty">>)
                   ELSE IF tasks[i].num_images < 1
                        THEN Err("ValueError", <<"num_images must be at least 1">>)
                   ELSE Err("ValueError", <<"num_images cannot exceed 10">>)

\* C16 witness: a dispatch of 11 images to the toolbox provider, whose own
\* limit is 4, ended in the construction error
C16_Witness ==
    /\ ImageDispatch(1)
    /\ tasks[1].num_images = RequestMaxImages + 1
    /\ tasks[1].inst = "toolbox1"
    /\ tasks[1].outcome = Err("ValueError", <<"num_images cannot exceed 10">>)
    /\ call.state = "raised"

\* C17 as claimed: a dispatch of either variant with an empty or
\* whitespace-only prompt fails when the request is built, before any provider
\* call is made.
C17_BlankPromptFailsAtBuild ==
    \A i \in DOMAIN tasks :
        (call.mode \in SingleModes /\ IsBlank(call.prompt)) =>
            /\ ~tasks[i].invoked
            /\ tasks[i].pc = "done" /\ IsError(tasks[i].outcome)

\* C18: with the mock image provider (maximum batch 4) serving, an image
\* dispatch of n images never fails for n in 1..4 and returns exactly n image
\* records indexed 0..n-1 in order, and for n in 5..10 it fails, uninvoked,
\* with the validation error "num_images (n) exceeds maximum (4)".
C18_MockBatchLimit ==
    \A i \in DOMAIN tasks :
        (/\ ImageDispatch(i) /\ tasks[i].inst = "imock1"
         /\ ~IsBlank(call.prompt) /\ tasks[i].num_images \in 1..RequestMaxImages) =>
            LET n == tasks[i].num_images
            IN  IF n <= 4
                THEN /\ tasks[i].invoked
                     /\ tasks[i].pc = "done" =>
                            /\ IsResponse(tasks[i].outcome)
                            /\ tasks[i].outcome.images = [k \in 1..n |-> k - 1]
                            /\ call.state = "returned"
                ELSE /\ tasks[i].pc = "done" /\ ~tasks[i].invoked
                     /\ tasks[i].outcome =
                            Err("ValueError", <<"Invalid image request", BatchMessage(n, 4)>>)

\* C18 witness: a dispatch of 4 images returned the records 0, 1, 2, 3
C18_Witness ==
    /\ ImageDispatch(1) /\ tasks[1].inst = "imock1"
    /\ call.state = "returned"
    /\ call.result[1].outcome.images = <<0, 1, 2, 3>>

-----------------------------------------------------------------------------
(* canonical_json, hash_dict and hash_input_packet on dicts that differ in  *)
(* insertion order only                                                     *)

\* keys a top-level dict of the model has at most
MaxKeys == 2

DictKeys == {"a", "m", "z"}

NestedKeys == {"a", "z"}

Atoms == {JNum(1), JStr("x")}

\* the dicts of at most n items with keys of K and values of V: the keys are
\* distinct, the insertion order is any
DictsOver(K, V, n) ==
    {d \in UNION {[1..k -> [key : K, value : V]] : k \in 0..n} :
        \A i, j \in DOMAIN d : i # j => d[i].key # d[j].key}

\* nested dicts hold a number under each of their keys; top-level dicts hold
\* atoms and nested dicts
NestedDicts == DictsOver(NestedKeys, {JNum(1)}, Cardinality(NestedKeys))

JsonDicts == DictsOver(DictKeys, Atoms \cup {JObj(d) : d \in NestedDicts}, MaxKeys)

Reverse(seq) == [i \in DOMAIN seq |-> seq[Len(seq) + 1 - i]]

\* d with its items in reverse insertion order, at both levels if deep
Reordered(d, deep) ==
    [i \in DOMAIN d |->
        LET e == d[Len(d) + 1 - i]
        IN  IF deep /\ e.value.kind = "obj"
            THEN [e EXCEPT !.value = JObj(Reverse(e.value.items))]
            ELSE e]

\* a caller dumps and hashes the dicts A and B
apply_canonical_json(A, B) ==
    /\ applied = NoApplied
    /\ applied' = [fn |-> "canonical_json", args |-> <<A, B>>,
                   result |-> <<canonical_json(A), canonical_json(B),
                                hash_dict(A), hash_dict(B),
                                hash_input_packet(A), hash_input_packet(B)>>]
    /\ UNCHANGED progVars

NextCanonical ==
    /\ applied = NoApplied
    /\ \E A \in JsonDicts, deep \in BOOLEAN : apply_canonical_json(A, Reordered(A, deep))

SpecCanonical == InitReg /\ [][NextCanonical]_vars

RECURSIVE SameContent(_, _)
\* A and B hold the same key/value pairs at every level
SameContent(A, B) ==
    /\ Len(A) = Len(B)
    /\ \A i \in DOMAIN A : \E j \in DOMAIN B :
           /\ A[i].key = B[j].key
           /\ A[i].value.kind = B[j].value.kind
           /\ IF A[i].value.kind = "obj"
              THEN SameContent(A[i].value.items, B[j].value.items)
              ELSE A[i].value = B[j].value

\* C19: for JSON-like dicts A and B with the same key/value pairs at every
\* nesting level and different insertion orders, canonical_json(A) equals
\* canonical_json(B), and hash_dict and hash_input_packet give A and B the
\* same digest.
C19_CanonicalIgnoresOrder ==
    (applied.fn = "canonical_json" /\ SameContent(applied.args[1], applied.args[2])) =>
        /\ applied.result[1] = applied.result[2]
        /\ applied.result[3] = applied.result[4]
        /\ applied.result[5] = applied.result[6]

\* C19 witness: two dicts that differ in order at both levels got one text
C19_Witness ==
    /\ applied.fn = "canonical_json"
    /\ applied.args[1] # applied.args[2]
    /\ SameContent(applied.args[1], applied.args[2])
    /\ \E i \in DOMAIN applied.args[1] :
           /\ applied.args[1][i].value.kind = "obj"
           /\ applied.args[1][i].value \notin {applied.args[2][j].value : j \in DOMAIN applied.args[2]}
    /\ applied.result[1] = "{\"a\":{\"a\":1,\"z\":1},\"z\":\"x\"}"

-----------------------------------------------------------------------------
(* validate_config on configuration dicts whose "providers" is a dict of    *)
(* dicts                                                                    *)

\* providers a configuration of the model has at most
MaxProviders == 2

\* provider names: a network type, a local type, one PROVIDER_REQUIREMENTS
\* does not know
ConfigNames == {"openai", "local", "custom"}

\* fields a provider's dict may hold; weights_path is no field of ProviderConfig
ConfigFields == {"api_key", "model_path", "weights_path"}

\* a field's value: empty or not
FieldValues == {"", "v"}

ProviderDicts == UNION {[F -> FieldValues] : F \in SUBSET ConfigFields}

\* str.lower() on the provider names in use
Lower(name) ==
    IF name = "OpenAI" THEN "openai"
    ELSE IF name = "Local" THEN "local"
    ELSE name

\* a dict value holding the items, and a value that is no dict
PyDict(items) == [type |-> "dict", items |-> items]

NotADict == [type |-> "str", items |-> [f \in {} |-> ""]]

\* dead_fields of validate_config
dead_fields == {"cache_enabled", "cache_ttl", "timeout", "max_retries"}

\* Settings.__dataclass_fields__[field].default, as its literal
SettingsDefault(field) ==
    CASE field = "cache_enabled" -> "False"
      [] field = "cache_ttl" -> "3600"
      [] field = "timeout" -> "30"
      [] field = "max_retries" -> "3"

\* a configured value of the field that differs from the default
NonDefault(field) ==
    CASE field = "cache_enabled" -> "True"
      [] field = "cache_ttl" -> "60"
      [] field = "timeout" -> "5"
      [] field = "max_retries" -> "0"

\* a config that configures none of the dead fields
NoFields == [f \in {} |-> ""]

\* the value of "default_provider": absent, empty, configured or not
ConfigDefaults == {None, "", "openai", "ghost"}

Configs ==
    {[providers |-> PyDict(ps), default_provider |-> d, fields |-> NoFields] :
        ps \in UNION {[S -> ProviderDicts] :
                          S \in {T \in SUBSET ConfigNames : Cardinality(T) <= MaxProviders}},
        d \in ConfigDefaults}

\* PROVIDER_REQUIREMENTS.get(ptype, set())
PROVIDER_REQUIREMENTS(ptype) ==
    IF ptype \in {"openai", "anthropic", "google"} THEN {"api_key"}
    ELSE IF ptype \in {"local", "ollama", "llama_cpp"} THEN {"model_path"}
    ELSE {}

\* the fields validate_provider_config requires: the table entry of
\* ptype = provider_type or name.lower(), or the set inferred from the dict
\* config when the table has none
RequiredFields(name, config, provider_type) ==
    LET ptype == PyOr(provider_type, Lower(name)) IN
    IF PROVIDER_REQUIREMENTS(ptype) # {} THEN PROVIDER_REQUIREMENTS(ptype)
    ELSE IF "model_path" \in DOMAIN config \/ "weights_path" \in DOMAIN config
         THEN IF "model_path" \notin DOMAIN config THEN {"model_path"} ELSE {}
         ELSE {"api_key"}

\* validate_provider_config: one 'expected dict' error for a config that is
\* no dict, else one error for each required field that is missing or empty
validate_provider_config(name, config, provider_type) ==
    IF config.type # "dict"
    THEN {[provider |-> name, field |-> "", error |-> "expected dict"]}
    ELSE {[provider |-> name, field |-> f,
           error |-> IF f \notin DOMAIN config.items THEN "missing required field"
                     ELSE "empty value for required field"] :
             f \in {g \in RequiredFields(name, config.items, provider_type) :
                       g \notin DOMAIN config.items \/ ~Truthy(config.items[g])}}

\* the fields of the dataclass ProviderConfig
ProviderConfigFields ==
    {"api_key", "default_model", "base_url", "model_path", "device", "parameters"}

\* Settings.from_dict: ProviderConfig(**provider_data) raises TypeError on a
\* key that is no field of ProviderConfig
from_dict_raises(config) ==
    \E n \in DOMAIN config.providers.items :
        ~(DOMAIN config.providers.items[n] \subseteq ProviderConfigFields)

\* the errors validate_config collects before it builds the Settings
config_errors(config) ==
    UNION {validate_provider_config(n, PyDict(config.providers.items[n]), None) :
               n \in DOMAIN config.providers.items}
    \cup (IF Truthy(config.default_provider)
             /\ config.default_provider \notin DOMAIN config.providers.items
          THEN {[provider |-> config.default_provider, field |-> "default_provider",
                 error |-> "not found in providers"]}
          ELSE {})

\* the warnings validate_config collects: one for each dead field that is in
\* config with a value other than the default of Settings
config_warnings(config) ==
    {f \in dead_fields :
        f \in DOMAIN config.fields /\ config.fields[f] # SettingsDefault(f)}

\* the settings of a ValidationResult that has none
NoSettings == [absent |-> TRUE]

\* Settings.from_dict: the providers, the default and the four fields taken
\* from config or from their defaults
from_dict(config) ==
    [providers |-> config.providers.items,
     default_provider |-> config.default_provider,
     fields |-> [f \in dead_fields |->
                    IF f \in DOMAIN config.fields THEN config.fields[f]
                    ELSE SettingsDefault(f)]]

\* validate_config: the ValidationResult
validate_config(config) ==
    IF config.providers.type # "dict"
    THEN [valid |-> FALSE,
          errors |-> {[provider |-> "", field |-> "providers", error |-> "must be a dict"]},
          warnings |-> {}, settings |-> NoSettings]
    ELSE IF config_errors(config) # {}
    THEN [valid |-> FALSE, errors |-> config_errors(config),
          warnings |-> config_warnings(config), settings |-> NoSettings]
    ELSE IF from_dict_raises(config)
    THEN [valid |-> FALSE,
          errors |-> {[provider |-> "", field |-> "", error |-> "Failed to build Settings"]},
          warnings |-> config_warnings(config), settings |-> NoSettings]
    ELSE [valid |-> TRUE, errors |-> {},
          warnings |-> config_warnings(config), settings |-> from_dict(config)]

\* a caller applies validate_config(config)
apply_validate_config(config) ==
    /\ applied = NoApplied
    /\ applied' = [fn |-> "validate_config", args |-> <<config>>,
                   result |-> validate_config(config)]
    /\ UNCHANGED progVars

NextConfig ==
    /\ applied = NoApplied
    /\ \E c \in Configs : apply_validate_config(c)

SpecConfig == InitReg /\ [][NextConfig]_vars

\* every provider of config has its required fields present and non-empty
RequirementsMet(config) ==
    \A n \in DOMAIN config.providers.items :
        \A f \in RequiredFields(n, config.providers.items[n], None) :
            f \in DOMAIN config.providers.items[n] /\ config.providers.items[n][f] # ""

\* a declared default_provider names a provider of config
DefaultConfigured(config) ==
    config.default_provider \notin {None, ""} =>
        config.default_provider \in DOMAIN config.providers.items

\* C20 as claimed: validate_config(C).valid is true if and only if every
\* provider configured in C has all of its required fields present and
\* non-empty and a declared default_provider names a provider configured in C.
C20_ValidIffRequirementsMet ==
    applied.fn = "validate_config" =>
        (applied.result.valid
            <=> (RequirementsMet(applied.args[1]) /\ DefaultConfigured(applied.args[1])))

\* ---- validate_provider_config on its own ----

\* provider names: known types in both cases and unknown ones
ProviderNames == {"openai", "OpenAI", "local", "custom"}

\* the explicit provider_type: not given, empty, known
ProviderTypes == {None, "", "openai", "local"}

\* the config argument: every dict of ProviderDicts, and a string
ProviderConfigArgs == {PyDict(d) : d \in ProviderDicts} \cup {NotADict}

\* a caller applies validate_provider_config(name, config, provider_type)
apply_validate_provider_config(name, config, provider_type) ==
    /\ applied = NoApplied
    /\ applied' = [fn |-> "validate_provider_config",
                   args |-> <<name, config, provider_type>>,
                   result |-> validate_provider_config(name, config, provider_type)]
    /\ UNCHANGED progVars

NextProviderConfig ==
    /\ applied = NoApplied
    /\ \E n \in ProviderNames, c \in ProviderConfigArgs, ty \in ProviderTypes :
           apply_validate_provider_config(n, c, ty)

SpecProviderConfig == InitReg /\ [][NextProviderConfig]_vars

\* the provider type of the call is in the requirements table
KnownType(name, provider_type) ==
    PROVIDER_REQUIREMENTS(PyOr(provider_type, Lower(name))) # {}

\* the required set as claimed: the table entry of a known type, model_path
\* for the local shape, api_key for the network shape
ClaimedRequired(name, items, provider_type) ==
    IF KnownType(name, provider_type)
    THEN PROVIDER_REQUIREMENTS(PyOr(provider_type, Lower(name)))
    ELSE IF "model_path" \in DOMAIN items \/ "weights_path" \in DOMAIN items
         THEN {"model_path"}
         ELSE {"api_key"}

\* one message for each field of the set R that is missing or empty in items
MessagesFor(name, items, R) ==
    {[provider |-> name, field |-> f, error |-> "missing required field"] :
        f \in {g \in R : g \notin DOMAIN items}}
    \cup {[provider |-> name, field |-> f, error |-> "empty value for required field"] :
        f \in {g \in R : g \in DOMAIN items /\ items[g] = ""}}

C21_HoldsWhenModelPathFilled ==
    applied.fn = "validate_provider_config" =>
        LET name == applied.args[1]
            config == applied.args[2]
            ty == applied.args[3]
        IN  (/\ config.type = "dict"
             /\ KnownType(name, ty) \/ ty = None
             /\ ~(/\ ~KnownType(name, ty)
                  /\ "model_path" \in DOMAIN config.items
                  /\ config.items["model_path"] = ""))
            => applied.result
                   = MessagesFor(name, config.items,
                                 ClaimedRequired(name, config.items, ty))

\* ---- warnings of validate_config ----

\* the dead fields of a config: each absent, at its default or changed
DeadSettings ==
    UNION {[S -> {"dflt", "changed"}] : S \in SUBSET dead_fields}

\* the values of the dead fields for the choice s
DeadValues(s) ==
    [f \in DOMAIN s |-> IF s[f] = "dflt" THEN SettingsDefault(f) ELSE NonDefault(f)]

\* the providers sections: no dict, empty, a provider lacking its key, a
\* complete one, one with a key ProviderConfig does not know
ProviderSections ==
    {NotADict,
     PyDict([n \in {} |-> NoFields]),
     PyDict([n \in {"openai"} |-> NoFields]),
     PyDict([n \in {"openai"} |-> [f \in {"api_key"} |-> "v"]]),
     PyDict([n \in {"openai"} |-> [f \in {"api_key", "weights_path"} |-> "v"]])}

WarningConfigs ==
    {[providers |-> ps, default_provider |-> None, fields |-> DeadValues(s)] :
        ps \in ProviderSections, s \in DeadSettings}

NextWarnings ==
    /\ applied = NoApplied
    /\ \E c \in WarningConfigs : apply_validate_config(c)

SpecWarnings == InitReg /\ [][NextWarnings]_vars

\* the dead fields config sets to a value that is not the default
ChangedFields(config) ==
    {f \in dead_fields :
        f \in DOMAIN config.fields /\ config.fields[f] = NonDefault(f)}

\* C22 as claimed: validate_config warns for each of cache_enabled, cache_ttl,
\* timeout and max_retries that is configured with a value different from its
\* default and for no other; a warning is never among the errors, and a
\* result with zero errors is valid whatever its warnings.
C22_WarningsForChangedFields ==
    applied.fn = "validate_config" =>
        /\ applied.result.warnings = ChangedFields(applied.args[1])
        /\ \A e \in applied.result.errors : e.field \notin dead_fields
        /\ applied.result.errors = {} => applied.result.valid

\* the part of C22 the code meets: the same for a config whose providers
\* section is a dict
C22_HoldsForDictProviders ==
    (applied.fn = "validate_config" /\ applied.args[1].providers.type = "dict") =>
        /\ applied.result.warnings = ChangedFields(applied.args[1])
        /\ \A e \in applied.result.errors : e.field \notin dead_fields
        /\ applied.result.errors = {} => applied.result.valid

\* ---- validate_config_strict ----

\* the outcome of validate_config_strict: the ConfigValidationError raised
\* with its message, or the Settings returned
StrictRaised(errors) ==
    [raised |-> TRUE,
     message |-> [prefix |-> "Configuration invalid", joined |-> errors],
     settings |-> NoSettings]

StrictReturned(settings) ==
    [raised |-> FALSE,
     message |-> [prefix |-> "", joined |-> {}],
     settings |-> settings]

validate_config_strict_lenient(config) ==
    StrictReturned(validate_config(config).settings)

\* validate_config_strict: raise on an invalid result, else its settings
validate_config_strict(config) ==
    LET result == validate_config(config) IN
    IF ~result.valid THEN StrictRaised(result.errors)
    ELSE StrictReturned(result.settings)

\* a caller applies validate_config_strict(config)
apply_validate_config_strict(config) ==
    /\ applied = NoApplied
    /\ applied' = [fn |-> "validate_config_strict", args |-> <<config>>,
                   result |-> validate_config_strict(config)]
    /\ UNCHANGED progVars

NextStrict ==
    /\ applied = NoApplied
    /\ \E c \in Configs \cup WarningConfigs : apply_validate_config_strict(c)

SpecStrict == InitReg /\ [][NextStrict]_vars

\* C23: validate_config_strict(config) raises ConfigValidationError if and
\* only if validate_config(config) is not valid, and the message carries
\* every error of that result; otherwise it returns the Settings that
\* validate_config produced, which is never absent.
C23_StrictRaisesIffInvalid ==
    applied.fn = "validate_config_strict" =>
        LET result == validate_config(applied.args[1]) IN
        /\ applied.result.raised <=> ~result.valid
        /\ applied.result.raised =>
              /\ applied.result.message.joined = result.errors
              /\ result.errors # {}
        /\ ~applied.result.raised =>
              /\ applied.result.settings = result.settings
              /\ applied.result.settings # NoSettings

\* a strict validation raised with at least two errors in its message
C23_Witness ==
    /\ applied.fn = "validate_config_strict"
    /\ applied.result.raised
    /\ Cardinality(applied.result.message.joined) >= 2

\* ---- validate_provenance ----

\* `required` of validate_provenance, in the order of the list
required_provenance == <<"request_id", "timestamp", "model_id", "provider_name">>

\* optional fields an envelope dict may carry
OptionalProvenance == {"input_hash", "template_id"}

\* the envelope dicts handed to validate_provenance: every field absent or
\* present, a required one with None, "" or a value
ProvenanceDicts ==
    UNION {{d \in [S -> {None, "", "v"}] :
               \A f \in S \cap OptionalProvenance : d[f] # None} :
           S \in SUBSET ({required_provenance[i] : i \in 1..4} \cup OptionalProvenance)}

\* the message validate_provenance appends for field
ProvenanceMessage(field) == "provenance missing required field: '" \o field \o "'"

\* the test validate_provenance makes of one required field
ProvenanceFieldFails(provenance, field) ==
    field \notin DOMAIN provenance \/ ~Truthy(provenance[field])

RECURSIVE validate_provenance_from(_, _)
\* the loop of validate_provenance from the i-th required field on
validate_provenance_from(provenance, i) ==
    IF i > Len(required_provenance) THEN <<>>
    ELSE (IF ProvenanceFieldFails(provenance, required_provenance[i])
          THEN <<ProvenanceMessage(required_provenance[i])>> ELSE <<>>)
         \o validate_provenance_from(provenance, i + 1)

validate_provenance_first(provenance) ==
    IF validate_provenance_from(provenance, 1) = <<>> THEN <<>>
    ELSE <<Head(validate_provenance_from(provenance, 1))>>

\* validate_provenance: the list of messages
validate_provenance(provenance) ==
    validate_provenance_from(provenance, 1)

\* a caller applies validate_provenance(provenance)
apply_validate_provenance(provenance) ==
    /\ applied = NoApplied
    /\ applied' = [fn |-> "validate_provenance", args |-> <<provenance>>,
                   result |-> validate_provenance(provenance)]
    /\ UNCHANGED progVars

NextProvenance ==
    /\ applied = NoApplied
    /\ \E d \in ProvenanceDicts : apply_validate_provenance(d)

SpecProvenance == InitReg /\ [][NextProvenance]_vars

\* the number of messages of the list msgs that name field
MessagesNaming(msgs, field) ==
    Cardinality({i \in DOMAIN msgs : msgs[i] = ProvenanceMessage(field)})

\* field is in the envelope dict d with a non-empty value
PresentNonEmpty(d, field) ==
    field \in DOMAIN d /\ d[field] \notin {None, ""}

\* C24: validate_provenance returns exactly one message for each of
\* request_id, timestamp, model_id and provider_name that is missing or
\* empty and none for the others; the list is empty if and only if all four
\* are present and non-empty; no message is about an optional field.
C24_OneMessagePerRequiredField ==
    applied.fn = "validate_provenance" =>
        LET d == applied.args[1]
            msgs == applied.result
            Required == {"request_id", "timestamp", "model_id", "provider_name"}
        IN  /\ \A f \in Required :
                  MessagesNaming(msgs, f) = IF PresentNonEmpty(d, f) THEN 0 ELSE 1
            /\ (msgs = <<>>) <=> \A f \in Required : PresentNonEmpty(d, f)
            /\ \A i \in DOMAIN msgs :
                  \E f \in Required : msgs[i] = ProvenanceMessage(f)

\* an envelope dict with one required field missing, one empty and an empty
\* optional field got two messages
C24_Witness ==
    /\ applied.fn = "validate_provenance"
    /\ "request_id" \notin DOMAIN applied.args[1]
    /\ "model_id" \in DOMAIN applied.args[1]
    /\ applied.args[1]["model_id"] = ""
    /\ "input_hash" \in DOMAIN applied.args[1]
    /\ applied.args[1]["input_hash"] = ""
    /\ Len(applied.result) = 2

\* ---- ProvenanceEnvelope.to_dict and from_dict ----

\* the fields of the dataclass ProvenanceEnvelope
EnvelopeFields ==
    {"request_id", "timestamp", "template_id", "template_version", "input_hash",
     "input_sha256", "model_id", "model_version", "weights_hash", "provider_name",
     "provider_config_hash", "policies_applied", "governance_safe", "latency_ms"}

\* the fields declared without a default
EnvelopeRequired == {"request_id", "timestamp"}

\* the default of a field that has one, as its literal
EnvelopeDefault(f) ==
    CASE f \in {"model_id", "provider_name"} -> ""
      [] f = "policies_applied" -> "[]"
      [] f = "governance_safe" -> "True"
      [] OTHER -> None

\* the envelopes: every field with values of its declared type, as literals
Envelopes ==
    [request_id : {"", "r"}, timestamp : {"t"},
     template_id : {None, "", "tpl"}, template_version : {None, "1"},
     input_hash : {None, "h"}, input_sha256 : {None, "s"},
     model_id : {"", "m"}, model_version : {None, "1"},
     weights_hash : {None, "w"},
     provider_name : {"", "p"}, provider_config_hash : {None, "c"},
     policies_applied : {"[]", "['x']"}, governance_safe : {"True", "False"},
     latency_ms : {None, "0"}]

\* the envelope from_dict cannot build: cls(**kwargs) raises TypeError
EnvelopeTypeError == [raised |-> "TypeError"]

to_dict_dropping_empty(e) ==
    [f \in {g \in EnvelopeFields : Truthy(e[g])} |-> e[f]]

\* ProvenanceEnvelope.to_dict: the items of asdict(self) whose value is not None
to_dict(e) ==
    [f \in {g \in EnvelopeFields : e[g] # None} |-> e[f]]

\* ProvenanceEnvelope.from_dict: the constructor on the items of data that
\* name a field; a field left out takes its default, and one without a
\* default makes the constructor raise
envelope_from_dict(data) ==
    IF ~(EnvelopeRequired \subseteq DOMAIN data) THEN EnvelopeTypeError
    ELSE [f \in EnvelopeFields |->
             IF f \in DOMAIN data THEN data[f] ELSE EnvelopeDefault(f)]

\* a caller serializes the envelope e and builds an envelope from the dict
apply_round_trip(e) ==
    /\ applied = NoApplied
    /\ applied' = [fn |-> "round_trip", args |-> <<e>>,
                   result |-> [data |-> to_dict(e),
                               envelope |-> envelope_from_dict(to_dict(e))]]
    /\ UNCHANGED progVars

NextEnvelope ==
    /\ applied = NoApplied
    /\ \E e \in Envelopes : apply_round_trip(e)

SpecEnvelope == InitReg /\ [][NextEnvelope]_vars

\* C25: to_dict() omits every field whose value is absent and only those,
\* keeping the value of every other field, and from_dict(to_dict(e)) equals e
\* in every field, for every envelope e.
C25_EnvelopeRoundTrips ==
    applied.fn = "round_trip" =>
        LET e == applied.args[1]
            data == applied.result.data
        IN  /\ \A f \in EnvelopeFields : (f \in DOMAIN data) <=> (e[f] # None)
            /\ \A f \in DOMAIN data : data[f] = e[f]
            /\ applied.result.envelope # EnvelopeTypeError
            /\ \A f \in EnvelopeFields : applied.result.envelope[f] = e[f]

\* an envelope with an absent field, an empty optional field and an empty
\* request_id went through to_dict and from_dict
C25_Witness ==
    /\ applied.fn = "round_trip"
    /\ applied.args[1]["input_hash"] = None
    /\ applied.args[1]["template_id"] = ""
    /\ applied.args[1]["request_id"] = ""
    /\ applied.args[1]["governance_safe"] = "False"
    /\ "input_hash" \notin DOMAIN applied.result.data
    /\ "template_id" \in DOMAIN applied.result.data

\* ---- create_provenance ----

\* the clock readings of two calls
Clock == {"t1", "t2"}

\* the arguments of create_provenance: request_id and input_content not
\* given, empty or given; policies not given, empty or given
ProvenanceArgs ==
    [model_id : {"", "m"}, provider_name : {"p"},
     template_id : {None, "tpl"}, template_version : {None},
     input_content : {None, "", "x"}, weights_hash : {None, "w"},
     policies : {None, "[]", "['x']"}, request_id : {None, "", "r"}]

\* create_provenance with the keyword arguments a at the clock reading now
create_provenance_of(a, now) ==
    create_provenance(a.model_id, a.provider_name, a.template_id, a.template_version,
                      a.input_content, a.weights_hash, a.policies, a.request_id, now)

\* the request ids generated after a call with the arguments a
UuidsAfterCreate(a) == IF Truthy(a.request_id) THEN uuids ELSE uuids + 1

\* a caller applies create_provenance(**a)
apply_create_provenance(a, now) ==
    /\ applied = NoApplied
    /\ applied' = [fn |-> "create_provenance", args |-> <<a>>,
                   result |-> <<create_provenance_of(a, now)>>]
    /\ uuids' = UuidsAfterCreate(a)
    /\ UNCHANGED <<regVars, call_count, call, tasks, half, nMut, nCalls>>

\* the caller applies create_provenance a second time with the same arguments
apply_create_provenance_again(now) ==
    /\ applied.fn = "create_provenance"
    /\ Len(applied.result) = 1
    /\ applied' = [applied EXCEPT
                      !.result = @ \o <<create_provenance_of(applied.args[1], now)>>]
    /\ uuids' = UuidsAfterCreate(applied.args[1])
    /\ UNCHANGED <<regVars, call_count, call, tasks, half, nMut, nCalls>>

NextCreate ==
    \/ /\ applied = NoApplied
       /\ \E a \in ProvenanceArgs, now \in Clock : apply_create_provenance(a, now)
    \/ /\ applied # NoApplied
       /\ \E now \in Clock : apply_create_provenance_again(now)

SpecCreate == InitReg /\ [][NextCreate]_vars

\* C26: create_provenance keeps a request_id that is supplied and generates a
\* fresh one only when none is; input_hash is the hash of input_content when
\* input_content is supplied and absent otherwise; two calls with the same
\* arguments yield envelopes equal in every field except a generated
\* request_id and the timestamp.  An empty request_id or input_content counts
\* as not supplied.
C26_CreateProvenanceDeterministic ==
    applied.fn = "create_provenance" =>
        LET a == applied.args[1]
            Supplied(x) == x \notin {None, ""}
        IN  /\ \A k \in DOMAIN applied.result :
                  LET e == applied.result[k] IN
                  /\ Supplied(a.request_id) => e.request_id = a.request_id
                  /\ ~Supplied(a.request_id) =>
                        /\ e.request_id \notin {None, "", a.request_id}
                        /\ \A j \in DOMAIN applied.result :
                               j # k => applied.result[j].request_id # e.request_id
                  /\ Supplied(a.input_content) =>
                        e.input_hash = hash_content(a.input_content)
                  /\ ~Supplied(a.input_content) => e.input_hash = None
                  /\ e.model_id = a.model_id /\ e.provider_name = a.provider_name
            /\ \A j, k \in DOMAIN applied.result :
                  \A f \in EnvelopeFields \ {"request_id", "timestamp"} :
                      applied.result[j][f] = applied.result[k][f]
            /\ Supplied(a.request_id) =>
                  uuids = 0

\* two calls with a supplied request_id and input_content were made at
\* different clock readings
C26_Witness ==
    /\ applied.fn = "create_provenance"
    /\ Len(applied.result) = 2
    /\ applied.args[1].request_id = "r"
    /\ applied.args[1].input_content = "x"
    /\ applied.result[1].timestamp # applied.result[2].timestamp
    /\ applied.result[1].request_id = "r"
    /\ applied.result[2].request_id = "r"

\* ---- single dispatches and the registry ----

\* the registry and the default a dispatch of the mode looks up
RegistryOf(mode) == IF mode \in TextModes THEN providers ELSE image_providers

DefaultOf(mode) == IF mode \in TextModes THEN default_provider ELSE default_image_provider

\* the registry name that serves a dispatch made with name
ServingName(mode, name) == IF name = None THEN DefaultOf(mode) ELSE name

\* the step is the call of generate or generate_image
SingleStarts == call.state = "idle" /\ call'.mode \in SingleModes

C27_Step ==
    /\ SingleStarts =>
          LET mode == call'.mode
              serving == ServingName(mode, call'.config[1].name)
              t == tasks'[1]
          IN  /\ Len(tasks') = 1
              /\ t.invoked =>
                    /\ Has(RegistryOf(mode), serving)
                    /\ t.inst = Lookup(RegistryOf(mode), serving)
              /\ \A m \in MockInsts :
                    call_count'[m] = call_count[m]
                                        + (IF t.invoked /\ t.inst = m THEN 1 ELSE 0)
    /\ (call.mode \in SingleModes /\ call.state = "awaiting") =>
          /\ call_count' = call_count
          /\ Len(tasks') = 1
          /\ tasks'[1].inst = tasks[1].inst
    /\ (call'.mode \in SingleModes /\ call'.state = "returned" /\ call.state # "returned") =>
          /\ tasks'[1].invoked
          /\ call'.result[1].outcome.inst = tasks'[1].inst

\* C27: a successful single dispatch invokes the generation operation of
\* exactly one provider, exactly once: the one registered under the given
\* name or, when no name is given, under the default current at the call; the
\* call count of no other provider changes from the call to its return.
C27_SingleDispatchInvokesOne == [][C27_Step]_vars

\* a dispatch without a name returned the answer of the provider registered
\* second and set as default, called once, while another is registered
C27_Witness ==
    /\ call.mode = "generate" /\ call.state = "returned"
    /\ tasks[1].name = None
    /\ Len(providers) = 2
    /\ providers[1].inst = "local1"
    /\ default_provider = providers[2].name
    /\ tasks[1].inst = "mock1"
    /\ call_count["mock1"] = 1

\* the step resolves the provider of task i
ResolvedNow(i) ==
    /\ i \in DOMAIN tasks'
    /\ tasks'[i].resolved # None
    /\ (i \notin DOMAIN tasks \/ call.state = "idle" \/ tasks[i].resolved = None)

C28_Step ==
    /\ \A i \in DOMAIN tasks :
          tasks[i].pc = "inflight" =>
              /\ i \in DOMAIN tasks'
              /\ tasks'[i].inst = tasks[i].inst
              /\ tasks'[i].resolved = tasks[i].resolved
              /\ tasks'[i].pc = "done" =>
                    /\ tasks'[i].outcome.etype \notin {"ValueError", "KeyError"}
                    /\ IsResponse(tasks'[i].outcome) =>
                          tasks'[i].outcome.inst = tasks[i].inst
              /\ (providers' # providers \/ default_provider' # default_provider
                    \/ image_providers' # image_providers
                    \/ default_image_provider' # default_image_provider)
                 => tasks' = tasks /\ call' = call
    /\ \A i \in DOMAIN tasks' :
          ResolvedNow(i) =>
              tasks'[i].inst = Lookup(RegistryOf(call'.mode),
                                      ServingName(call'.mode, tasks'[i].name))

\* C28: once a dispatch has resolved its provider and is suspended in the
\* provider's call, a remove, an overwrite or a set-default changes neither
\* the instance that serves it nor its outcome; a dispatch that resolves its
\* provider later gets what the registry holds then.
C28_InFlightKeepsProvider == [][C28_Step]_vars

\* a dispatch got the answer of the provider it resolved although the name
\* was given to another provider while the call was in flight
C28_Witness ==
    /\ call.mode = "generate" /\ call.state = "returned"
    /\ tasks[1].inst = "mock1"
    /\ IsResponse(tasks[1].outcome)
    /\ Has(providers, tasks[1].resolved)
    /\ Lookup(providers, tasks[1].resolved) = "local1"

\* C30: whenever generate_parallel itself raises, no provider's generate has
\* been invoked for any entry of that call, the entries before the offending
\* one included: their coroutines are created and never started.
C30_RaisingFanOutInvokesNone ==
    (call.mode = "generate_parallel" /\ call.state = "raised") =>
        \A i \in DOMAIN tasks :
            ~tasks[i].invoked /\ tasks[i].pc = "created" /\ tasks[i].resolved = None

\* a text fan-out raised on its second entry while the first names a
\* registered provider and a model it has
C30_Witness ==
    /\ call.mode = "generate_parallel" /\ call.state = "raised"
    /\ Len(tasks) = 1
    /\ Has(providers, tasks[1].name)
    /\ validate_model(Lookup(providers, tasks[1].name), tasks[1].model)

\* ---- termination of a fan-out ----

\* fan-outs alone, on registries that are filled and left alone
NextFan ==
    \/ \E p \in Prompts, c \in ConfigsOf(TextOpts) : generate_parallel(p, c)
    \/ \E p \in Prompts, c \in ConfigsOf(ImageOpts) : generate_images_parallel(p, c)
    \/ \E i \in 1..Cardinality(ConfigKeys), h \in BOOLEAN : task_start(i, h)
    \/ \E i \in 1..Cardinality(ConfigKeys), s \in HttpStatuses : task_finish(i, s)
    \/ gather_return
    \/ call_end

\* the event loop runs every task that is ready, every provider call that
\* was issued completes, and the fan-out is resumed when gather is done
FairFan ==
    /\ WF_vars(\E i \in 1..Cardinality(ConfigKeys), h \in BOOLEAN : task_start(i, h))
    /\ \A i \in 1..Cardinality(ConfigKeys) :
          WF_vars(\E s \in HttpStatuses : task_finish(i, s))
    /\ WF_vars(gather_return)

SpecFanLive == InitDispatch /\ [][NextFan]_vars /\ FairFan

\* a fan-out is awaiting its gather
FanAwaiting == call.mode \in FanModes /\ call.state = "awaiting"

\* no step takes a provider call out of flight except its own completion
C29_Step ==
    \A i \in DOMAIN tasks :
        tasks[i].pc = "inflight" =>
            /\ i \in DOMAIN tasks'
            /\ tasks'[i].pc \in {"inflight", "done"}
            /\ tasks'[i].pc = "done" =>
                  tasks'[i].outcome.etype \notin {"CancelledError", "TimeoutError"}

\* C29: if every provider call a fan-out issued eventually completes, the
\* fan-out eventually returns its mapping; no call in flight is cancelled or
\* abandoned because another entry failed, and none ends by a deadline.
C29_FanOutTerminates ==
    /\ FanAwaiting ~> FanReturned
    /\ [][C29_Step]_vars

\* one entry of a fan-out has failed in its provider call while another
\* entry's call is still in flight
C29_Witness ==
    /\ FanAwaiting
    /\ \E i, j \in DOMAIN tasks :
           /\ tasks[i].pc = "done" /\ tasks[i].invoked /\ IsError(tasks[i].outcome)
           /\ tasks[j].pc = "inflight"

====
